---- MODULE Spec2Model ----
(***************************************************************************)
(* A model of the fragment execution runtime of ImpalaPythia:              *)
(*   - ImpalaServer::FragmentExecState (be/src/service/                    *)
(*     fragment-exec-state.cc): UpdateStatus, Cancel, ReportStatusCb;      *)
(*   - RuntimeState (be/src/runtime/runtime-state.cc): Init's clamps,      *)
(*     the error log, SetMemLimitExceeded, CheckQueryState;                *)
(*   - ThriftClientImpl (be/src/rpc/thrift-client.cc): Open, Close,        *)
(*     OpenWithRetry;                                                      *)
(*   - SimpleScheduler (be/src/statestore/simple-scheduler.h): the         *)
(*     assignment of scan ranges to backends, the maps of active           *)
(*     reservations, GetYarnPool;                                          *)
(*   - RuntimeProfile (be/src/util/runtime-profile.h): the counter map,    *)
(*     Merge, HighWaterMarkCounter.                                        *)
(* A critical section guarded by one lock_guard is one atomic action; a    *)
(* function that takes several locks, or blocks on an RPC, is a sequence   *)
(* of actions driven by a program counter.                                 *)
(***************************************************************************)
EXTENDS Integers, Sequences, FiniteSets, TLC

\* ------------------------------------------------------------------ bounds
\* ReportStatusCb invocations modelled per fragment.
MaxReports == 2
\* External FragmentExecState::Cancel() calls modelled per fragment.
MaxCancelCalls == 2
\* RuntimeState::LogError(string) calls made by operators.
MaxLogCalls == 2
\* The largest max_errors query option drawn (the smallest is -1).
MaxErrorsOpt == 1
\* The largest batch_size query option drawn (the smallest is -1).
MaxBatchSizeOpt == 1
\* The largest num_tries handed to OpenWithRetry.
MaxTries == 2
\* Scan ranges assigned by the scheduler.
MaxAssignments == 6
\* Membership deltas applied to the scheduler.
MaxDeltas == 2
\* HighWaterMarkCounter::Update calls made on one counter.
MaxUpdates == 4
\* The largest delta of an Update (the smallest is -MaxDelta - 1).
MaxDelta == 3
\* TryUpdate calls started on one counter, over all threads.
MaxTryCalls == 3
\* The largest max the callers of TryUpdate pass (the smallest is 0).
MaxLimit == 2
\* The largest value of a counter of a profile before a Merge, and the
\* largest a counter is updated to.
MaxCounterValue == 2
\* Counter objects made in one profile.
MaxCounters == 3
\* Child profiles added to one profile.
MaxChildren == 3
\* Derived counters one PrettyPrint or ToThrift call evaluates.
MaxDerived == 2
\* Update and Set calls made on one HighWaterMarkCounter by concurrent
\* threads.
MaxHwmCalls == 2
\* Projection strings in one Project operator's configuration.
MaxProjections == 2
\* The number of values of the uint32_t try_count (thrift-client.cc:46),
\* scaled down from 2^32 so that the counter wraps within the model.
TryCountMod == 4

\* ------------------------------------------------------------- constants
\* runtime-state.cc:98: the value a non-positive max_errors is replaced by.
DefaultMaxErrors == 100

\* ---------------------------------------------------------------- status
OK == "OK"
\* Statuses the executor hands to ReportStatusCb (and callers to UpdateStatus).
ExecStatuses == {"OK", "CANCELLED", "EXEC_ERROR"}
\* fragment-exec-state.cc:68: INTERNAL_ERROR "couldn't get a client for ..."
NoClientStatus == "NO_CLIENT"
\* fragment-exec-state.cc:113: the non-OK status of a failed coord.Reopen()
ReopenFailedStatus == "REOPEN_FAILED"
\* fragment-exec-state.cc:122: a non-OK res.status returned by the coordinator
CoordErrorStatus == "COORD_ERROR"
\* fragment-exec-state.cc:127: INTERNAL_ERROR "ReportExecStatus() to ... failed"
RpcFailedStatus == "RPC_FAILED"

\* What one coord->ReportExecStatus(res, params) call can do: return a result
\* whose status is OK ("ok") or not ("err"), throw a TTransportException
\* ("transport"), or throw another TException ("texception").
RpcOutcomes == {"ok", "err", "transport", "texception"}

VARIABLES
    \* ---- FragmentExecState
    exec_status,         \* exec_status_
    executor_cancelled,  \* the executor has been told to cancel
    executor_cancels,    \* number of executor_.Cancel() calls so far
    cancel_calls,        \* number of FragmentExecState::Cancel() calls so far
    cancel_ret,          \* what the last Cancel() returned ("none" before)
    cancel_run,          \* the current run of consecutive Cancel() calls
    upd,                 \* the last UpdateStatus call: its argument and return
    first_error,         \* first non-OK status applied while exec_status_ was OK
    \* ---- ReportStatusCb (the executor's reporting thread)
    cb_pc,               \* where the callback stands
    cb_done,             \* argument done (until params is built)
    cb_exec_status,      \* local exec_status, line 61 (until params is built)
    cb_params,           \* local params (lines 72-104)
    cb_trace,            \* the RPC and Reopen calls of this invocation, in order
    reports,             \* invocations so far
    reporter_done,       \* an invocation with done = true has been made
    coord_received,      \* the coordinator: the reports it received, in order
    \* ---- RuntimeState
    max_errors,          \* query_options.max_errors after Init
    error_log,           \* error_log_
    unreported_error_idx, \* unreported_error_idx_
    n_log_calls,         \* LogError(string) calls made by operators
    log_ret,             \* what the last LogError(string) returned
    new_errors,          \* the vector last handed to GetUnreportedErrors, after it
    get_call,            \* the last GetUnreportedErrors call: what its vector held
                         \* before, and the calls since the last LogError call
    query_status,        \* query_status_
    is_cancelled,        \* is_cancelled_
    limit_exceeded,      \* which tracker above the instance tracker is over its limit
    pc,                  \* per worker: where it stands in its call
    call,                \* per worker: its current (or last) call and what it returned
    \* ---- RuntimeState: construction and ErrorLogIsEmpty
    init_args,           \* the query options the constructor was given
    init_status,         \* what Init returned ("none" before the constructor)
    batch_size,          \* query_options.batch_size after Init
    resource_pool,       \* resource_pool_: "NULL" or "registered"
    total_timers,        \* the total_*_timer_ counters added to the profile
    empty_call,          \* the last ErrorLogIsEmpty() call: the size of the log it
                         \* saw and what it returned
    \* ---- history
    attached,            \* the error logs ReportStatusCb attached so far, joined
    \* ---- ThriftClientImpl
    socket_create_status, \* socket_create_status_
    transport,           \* transport_: "null", or a transport "closed" or "open"
    server_up,           \* the server accepts connections: transport_->open() succeeds
    client_call,         \* the last Open() or Close() call
    owr,                 \* the current (or last) OpenWithRetry call
    \* ---- FragmentExecState: Prepare and Exec
    prepare_ret,         \* what Prepare() returned ("none" before)
    exec_pc,             \* where Exec() stands: "none", "open" (in
                         \* executor_.Open()), "done"
    executor_calls,      \* the calls Prepare and Exec made on executor_, in order
    \* ---- SimpleScheduler
    backend_list,        \* the known backends, in the order they became known
    host_rr,             \* per host: the round-robin pointer into its backends
    nonlocal_rr,         \* next_nonlocal_backend_entry_: a position in backend_map_
    nonlocal_epoch,      \* the backend_map_ that iterator was taken from
    map_epoch,           \* the backend_map_ there is now: it counts its changes
    nonlocal_count,      \* per backend: non-local ranges since the last change
    total_assignments,   \* total_assignments_
    total_local_assignments, \* total_local_assignments_
    last_assignment,     \* the last scan range assigned: its hosts and its backend
    active_reservations,      \* active_reservations_: reservation id -> coordinator
    active_client_resources,  \* active_client_resources_: resource id -> coordinator
    schedules,           \* per query: its QuerySchedule and the reservation in it
    user_pool_whitelist, \* user_pool_whitelist_: user -> the pools allowed, in order
    default_pools,       \* default_pools_
    pool_call,           \* the last GetYarnPool call: its arguments and results
    \* ---- RuntimeProfile::HighWaterMarkCounter
    hwm_current,         \* current_value_
    hwm_value,           \* value_: the high water mark
    hwm_deltas,          \* the deltas of the Update calls made, in order
    try_max,             \* the max the callers of TryUpdate pass
    try_calls,           \* per thread: its TryUpdate call, locals and position
    try_applied,         \* the sum of the deltas of the TryUpdate calls that swapped
    n_try_calls,         \* TryUpdate calls started
    \* ---- RuntimeProfile
    prof_dst,            \* the profile tree Merge is called on: path -> counters
    prof_src,            \* the profile tree handed to Merge
    prof_dst0,           \* prof_dst as it was before Merge
    prof_src0,           \* prof_src as it was before Merge
    merged,              \* Merge has run
    counter_map,         \* counter_map_: name -> counter object (0: no entry)
    counters,            \* the counter objects of the pool, in order of creation
    counter_call,        \* the last AddCounter or GetCounter call
    \* ---- RuntimeProfile: locks and caller-supplied code
    children,            \* children_: the child profiles, in order
    children_lock,       \* children_lock_: the thread holding it, or "none"
    counter_map_lock,    \* counter_map_lock_: the thread holding it, or "none"
    prof_call,           \* per thread: its call on the profile and where it stands
    last_callback,       \* the last caller-supplied function invoked, and the
                         \* locks of the profile its invoker held
    \* ---- HighWaterMarkCounter: concurrent Update and Set
    hwm_calls,           \* per thread: its Update or Set call and where it stands
    n_hwm_calls,         \* Update and Set calls started
    \* ---- RuntimeState: memory trackers
    query_tracker,       \* the query-wide MemTracker: the shared_ptrs that hold it
                         \* (refs), its limit, and which tracker object it is (id)
    trk,                 \* per fragment instance: where its RuntimeState stands, and
                         \* its query_mem_tracker_, instance_mem_tracker_,
                         \* udf_mem_tracker_
    \* ---- Project (pythia operator)
    node,                \* cfg["projection"]: the projection strings
    columns,             \* srcschema.columns()
    proj_idx,            \* idx of the loop of Project::init
    projlist,            \* projlist
    proj_status,         \* "none", "running", "returned", or the exception thrown
    map_wrapper_init     \* MapWrapper::init has run

fragVars == <<exec_status, executor_cancelled, executor_cancels, cancel_calls,
              cancel_ret, upd, first_error>>
cbVars == <<cb_pc, cb_done, cb_exec_status, cb_params, cb_trace,
            reports, reporter_done, coord_received>>
logVars == <<max_errors, error_log, unreported_error_idx, n_log_calls, log_ret,
             new_errors, get_call>>
rtVars == <<query_status, is_cancelled, limit_exceeded, pc, call>>
stVars == <<init_args, init_status, batch_size, resource_pool, total_timers,
           empty_call>>
\* What neither the fragment's nor the RuntimeState's running operations touch.
histVars == <<attached>>
\* The components modelled apart from the fragment.
clVars == <<socket_create_status, transport, server_up, client_call, owr>>
lcVars == <<prepare_ret, exec_pc, executor_calls>>
assignVars == <<backend_list, host_rr, nonlocal_rr, nonlocal_epoch, map_epoch,
                nonlocal_count, total_assignments, total_local_assignments,
                last_assignment>>
resVars == <<active_reservations, active_client_resources, schedules>>
poolVars == <<user_pool_whitelist, default_pools, pool_call>>
schVars == <<assignVars, resVars, poolVars>>
hwmVars == <<hwm_current, hwm_value, hwm_deltas>>
tryVars == <<try_max, try_calls, try_applied, n_try_calls>>
mergeVars == <<prof_dst, prof_src, prof_dst0, prof_src0, merged>>
cntVars == <<counter_map, counters, counter_call>>
profVars == <<hwmVars, tryVars, mergeVars, cntVars>>
lockVars == <<children, children_lock, counter_map_lock, prof_call,
              last_callback>>
\* The components added to the model last.
raceVars == <<hwm_calls, n_hwm_calls>>
trkVars == <<query_tracker, trk>>
projVars == <<node, columns, proj_idx, projlist, proj_status,
              map_wrapper_init>>
restVars == <<lockVars, raceVars, trkVars, projVars>>
extVars == <<clVars, lcVars, schVars, profVars, restVars>>
auxVars == <<stVars, histVars, extVars>>
vars == <<fragVars, cancel_run, cbVars, logVars, rtVars, auxVars>>

\* ------------------------------------------------------------ RuntimeState
\* Init's clamp with < for <=: a max_errors of 0 is kept.
ClampMaxErrorsNegativeOnly(opt) == IF opt < 0 THEN DefaultMaxErrors ELSE opt

\* RuntimeState::Init, lines 95-99: a non-positive max_errors becomes 100.
ClampMaxErrors(opt) == IF opt <= 0 THEN DefaultMaxErrors ELSE opt

\* The max_errors query options a RuntimeState is constructed with.
MaxErrorsOptions == (-1) .. MaxErrorsOpt

\* DEFAULT_BATCH_SIZE of runtime-state.h, used at lines 75 and 101.
DEFAULT_BATCH_SIZE == 1024

\* RuntimeState::Init, lines 100-102: a non-positive batch_size becomes
\* DEFAULT_BATCH_SIZE.
ClampBatchSize(opt) == IF opt <= 0 THEN DEFAULT_BATCH_SIZE ELSE opt

\* The batch_size query options a RuntimeState is constructed with.
BatchSizeOptions == (-1) .. MaxBatchSizeOpt

\* The query options of the TQueryContext handed to the constructor.
QueryOptions == [max_errors : MaxErrorsOptions, batch_size : BatchSizeOptions,
                 disable_codegen : BOOLEAN]

\* Before the constructor has run.
NoArgs == [max_errors |-> 0, batch_size |-> 0, disable_codegen |-> TRUE]

\* Status of a failed LlvmCodeGen::LoadImpalaIR, line 157.
CodegenError == "CODEGEN_ERROR"

\* RuntimeState::Init, lines 110-112: the timers added to the profile.
TotalTimers == {"TotalCpuTime", "TotalStorageWaitTime", "TotalNetworkWaitTime"}

\* RuntimeState::Init, lines 90-94: RETURN_IF_ERROR(CreateCodegen()) leaves
\* Init before the clamps when codegen is enabled and cannot be created.
InitReturns(opts, codegen_ok) ==
    IF ~opts.disable_codegen /\ ~codegen_ok THEN CodegenError ELSE OK

\* The first constructor, lines 48-63: query_ctxt_ is a copy of the context
\* given, and Init (lines 86-115), called with the server's ExecEnv, clamps
\* its options, registers with the thread manager and adds the timers unless
\* it returns early.
\* DCHECK(status.ok()) at line 62 is compiled out of a release build, where
\* the object is used whatever Init returned.
RuntimeStateCtor(opts, codegen_ok) ==
    /\ init_status = "none"
    /\ init_args' = opts
    /\ init_status' = InitReturns(opts, codegen_ok)
    /\ IF InitReturns(opts, codegen_ok) = OK
         THEN /\ max_errors' = ClampMaxErrors(opts.max_errors)
              /\ batch_size' = ClampBatchSize(opts.batch_size)
              /\ resource_pool' = "registered"
              /\ total_timers' = TotalTimers
         ELSE /\ max_errors' = opts.max_errors
              /\ batch_size' = opts.batch_size
              /\ UNCHANGED <<resource_pool, total_timers>>
    /\ UNCHANGED <<error_log, unreported_error_idx, n_log_calls, log_ret,
                   new_errors, get_call, empty_call>>
    /\ UNCHANGED <<fragVars, cancel_run, cbVars, rtVars, histVars, extVars>>

\* The constructor has run.
Constructed == init_status # "none"

\* No ErrorLogIsEmpty() call yet.
NoEmptyCall == [called |-> FALSE, size |-> 0, ret |-> FALSE]

\* RuntimeState::ErrorLogIsEmpty, line 165: what it returns.
ErrorLogIsEmptyReturns(log) == Len(log) > 0

\* RuntimeState::ErrorLogIsEmpty, lines 163-166.
ErrorLogIsEmpty ==
    /\ Constructed
    /\ empty_call' = [called |-> TRUE, size |-> Len(error_log),
                      ret |-> ErrorLogIsEmptyReturns(error_log)]
    /\ UNCHANGED <<init_args, init_status, batch_size, resource_pool,
                   total_timers>>
    /\ UNCHANGED <<fragVars, cancel_run, cbVars, logVars, rtVars, histVars,
                   extVars>>

\* LogError, line 189: error_log_.size() < max_errors compares a size_t with
\* an int32, so the int is converted to unsigned: a negative max_errors is
\* larger than every size.
SizeLessThan(size, m) == IF m < 0 THEN TRUE ELSE size < m

\* LogError with <= for <: one entry too many.
LogErrorAppendsOffByOne(log, m) == SizeLessThan(Len(log), m + 1)

\* LogError(const string&), lines 187-194: whether the entry is appended
\* (and true returned).
LogErrorAppends(log, m) == SizeLessThan(Len(log), m)

\* An entry logged by an operator: the n-th LogError call logs <<"error", n>>.
ErrorEntry(n) == <<"error", n>>

\* No GetUnreportedErrors call yet.
NoGetCall == [held |-> <<>>, run |-> 0]

\* A LogError call ends the run of GetUnreportedErrors calls.
LogErrorCalled(gc) == [gc EXCEPT !.run = 0]

\* A GetUnreportedErrors call on a vector holding `held`: the first of a run,
\* or a later one (2).
GetCalled(gc, held) == [held |-> held, run |-> IF gc.run < 2 THEN gc.run + 1 ELSE 2]

\* RuntimeState::LogError(const string&), lines 187-194.
LogError ==
    /\ Constructed
    /\ n_log_calls < MaxLogCalls
    /\ n_log_calls' = n_log_calls + 1
    /\ IF LogErrorAppends(error_log, max_errors)
         THEN /\ error_log' = Append(error_log, ErrorEntry(n_log_calls + 1))
              /\ log_ret' = TRUE
         ELSE /\ error_log' = error_log
              /\ log_ret' = FALSE
    /\ get_call' = LogErrorCalled(get_call)
    /\ UNCHANGED <<max_errors, unreported_error_idx, new_errors>>
    /\ UNCHANGED <<fragVars, cancel_run, cbVars, rtVars, auxVars>>

\* GetUnreportedErrors, lines 201-207: the new contents of *new_errors, given
\* what it held before.
UnreportedErrors(held, log, idx) ==
    IF idx < Len(log) THEN SubSeq(log, idx + 1, Len(log)) ELSE held

\* GetUnreportedErrors without line 205: the watermark stays where it is.
AdvancedIdxStale(log, idx) == idx

\* GetUnreportedErrors, lines 203-206: the watermark after the call.
AdvancedIdx(log, idx) == IF idx < Len(log) THEN Len(log) ELSE idx

\* GetUnreportedErrors(new_errors), lines 201-207, called on a vector that
\* holds `held`.
GetUnreportedErrors(held) ==
    /\ Constructed
    /\ new_errors' = UnreportedErrors(held, error_log, unreported_error_idx)
    /\ get_call' = GetCalled(get_call, held)
    /\ unreported_error_idx' = AdvancedIdx(error_log, unreported_error_idx)
    /\ UNCHANGED <<max_errors, error_log, n_log_calls, log_ret>>
    /\ UNCHANGED <<fragVars, cancel_run, cbVars, rtVars, auxVars>>

MemLimitExceeded == "MEM_LIMIT_EXCEEDED"
\* The status an operator's background thread records with set_query_status.
QueryError == "QUERY_ERROR"

\* The threads of the fragment instance that call into its RuntimeState.
Workers == {"w1", "w2"}

\* A worker that is not in a call and has made none.
\* fn: the function called; saw_exceeded: what AnyLimitExceeded() returned;
\* failed_size: the argument of a SetMemLimitExceeded call in progress;
\* seen, was_cancelled: query_status_ and is_cancelled_ when the call took
\* query_status_lock_; ret: the status returned.
NoCall == [fn |-> "none", saw_exceeded |-> FALSE, failed_size |-> 0,
           seen |-> "none", was_cancelled |-> FALSE, ret |-> "none"]

\* MemTracker::AnyLimitExceeded() on the instance tracker: the instance
\* tracker has no limit (line 122), its ancestors are the query tracker and
\* the process tracker.
AnyLimitExceeded == limit_exceeded # "none"

\* process_mem_tracker()->LimitExceeded(), line 231.
ProcessLimitExceeded == limit_exceeded = "process"

\* A tracker's consumption moves above or below its limit.
TrackerChange(which) ==
    /\ limit_exceeded # which
    /\ limit_exceeded' = which
    /\ UNCHANGED <<query_status, is_cancelled, pc, call, logVars>>
    /\ UNCHANGED <<fragVars, cancel_run, cbVars, auxVars>>

\* set_query_status(err_msg): a background thread records an error; the
\* first non-OK status wins.
SetQueryStatus ==
    /\ query_status = OK
    /\ query_status' = QueryError
    /\ UNCHANGED <<is_cancelled, limit_exceeded, pc, call, logVars>>
    /\ UNCHANGED <<fragVars, cancel_run, cbVars, auxVars>>

\* set_is_cancelled(true): the cancellation flag, set once.
SetIsCancelled ==
    /\ ~is_cancelled
    /\ is_cancelled' = TRUE
    /\ UNCHANGED <<query_status, limit_exceeded, pc, call, logVars>>
    /\ UNCHANGED <<fragVars, cancel_run, cbVars, auxVars>>

\* SetMemLimitExceeded without the query_status_.ok() test.
SetsMemLimitAlways(qs) == TRUE

\* SetMemLimitExceeded, line 214: the transition is made only from OK.
SetsMemLimit(qs) == qs = OK

\* SetMemLimitExceeded, lines 212-219, by worker w: under query_status_lock_,
\* set MEM_LIMIT_EXCEEDED if the status is OK, else return the status.
SetMemLimitExceeded_Lock(w, c) ==
    IF SetsMemLimit(query_status)
      THEN /\ query_status' = MemLimitExceeded
           /\ pc' = [pc EXCEPT ![w] = "sml_log"]
           /\ call' = [call EXCEPT ![w] = [c EXCEPT
                                            !.seen = query_status,
                                            !.was_cancelled = is_cancelled]]
      ELSE /\ query_status' = query_status
           /\ pc' = [pc EXCEPT ![w] = "idle"]
           /\ call' = [call EXCEPT ![w] = [c EXCEPT
                                            !.seen = query_status,
                                            !.was_cancelled = is_cancelled,
                                            !.ret = query_status,
                                            !.failed_size = 0]]

\* SetMemLimitExceeded(tracker, failed_allocation_size), lines 209-219, called
\* by an operator whose allocation failed.
SetMemLimitExceeded_Call(w, failed_allocation_size) ==
    /\ pc[w] = "idle"
    /\ SetMemLimitExceeded_Lock(w, [NoCall EXCEPT
                                      !.fn = "SetMemLimitExceeded",
                                      !.failed_size = failed_allocation_size])
    /\ UNCHANGED <<is_cancelled, limit_exceeded, logVars>>
    /\ UNCHANGED <<fragVars, cancel_run, cbVars, auxVars>>

\* The entry SetMemLimitExceeded logs, lines 222-235: the failed allocation,
\* if one was given, and the usage of the process tracker if that is over
\* its limit, else of the query tracker.
MemLimitEntry(failed_allocation_size) ==
    <<"mem_limit", failed_allocation_size,
      IF ProcessLimitExceeded THEN "process" ELSE "query">>

\* SetMemLimitExceeded, lines 221-238: the call that made the transition logs
\* the details with LogError and returns query_status_.
SetMemLimitExceeded_Log(w) ==
    /\ pc[w] = "sml_log"
    /\ IF LogErrorAppends(error_log, max_errors)
         THEN error_log' = Append(error_log, MemLimitEntry(call[w].failed_size))
         ELSE error_log' = error_log
    /\ pc' = [pc EXCEPT ![w] = "idle"]
    /\ call' = [call EXCEPT ![w].ret = query_status, ![w].failed_size = 0]
    /\ get_call' = LogErrorCalled(get_call)
    /\ UNCHANGED <<query_status, is_cancelled, limit_exceeded, max_errors,
                   unreported_error_idx, n_log_calls, log_ret, new_errors>>
    /\ UNCHANGED <<fragVars, cancel_run, cbVars, auxVars>>

\* CheckQueryState, line 244: instance_mem_tracker_->AnyLimitExceeded().
CheckQueryState_Begin(w) ==
    /\ pc[w] = "idle"
    /\ pc' = [pc EXCEPT ![w] = "cqs"]
    /\ call' = [call EXCEPT ![w] = [NoCall EXCEPT
                                      !.fn = "CheckQueryState",
                                      !.saw_exceeded = AnyLimitExceeded]]
    /\ UNCHANGED <<query_status, is_cancelled, limit_exceeded, logVars>>
    /\ UNCHANGED <<fragVars, cancel_run, cbVars, auxVars>>

\* CheckQueryState with the cancellation check its TODO (line 242) asks for.
CheckQueryStateReportsCancel(qs, cancelled) ==
    IF qs = OK /\ cancelled THEN "CANCELLED" ELSE qs

\* CheckQueryState, lines 245-246: what is returned when no limit was seen
\* exceeded: query_status_, whatever is_cancelled_ holds.
CheckQueryStateReturns(qs, cancelled) == qs

\* CheckQueryState, lines 244-246: return SetMemLimitExceeded() if a limit
\* was exceeded, else query_status_ read under query_status_lock_.
CheckQueryState_End(w) ==
    /\ pc[w] = "cqs"
    /\ IF call[w].saw_exceeded
         THEN SetMemLimitExceeded_Lock(w, call[w])
         ELSE /\ pc' = [pc EXCEPT ![w] = "idle"]
              /\ call' = [call EXCEPT
                            ![w].seen = query_status,
                            ![w].was_cancelled = is_cancelled,
                            ![w].ret = CheckQueryStateReturns(query_status,
                                                              is_cancelled)]
              /\ UNCHANGED query_status
    /\ UNCHANGED <<is_cancelled, limit_exceeded, logVars>>
    /\ UNCHANGED <<fragVars, cancel_run, cbVars, auxVars>>

\* ------------------------------------------------------- FragmentExecState
\* UpdateStatus without the exec_status_.ok() test: the last error wins.
UpdateStatusOverwrites(cur, status) == IF status # OK THEN status ELSE cur

\* FragmentExecState::UpdateStatus, lines 27-31: the new exec_status_, which
\* is also the value returned.
UpdateStatus(cur, status) == IF status # OK /\ cur = OK THEN status ELSE cur

\* A call UpdateStatus(status), with the record of what it was given, what
\* it returned, and of the first error applied.
CallUpdateStatus(status) ==
    /\ exec_status' = UpdateStatus(exec_status, status)
    /\ upd' = [arg |-> status, ret |-> UpdateStatus(exec_status, status)]
    /\ first_error' = IF first_error = OK /\ exec_status = OK /\ status # OK
                        THEN status ELSE first_error

\* executor_.Cancel(), as called at lines 36, 117 and 133.
ExecutorCancel ==
    /\ executor_cancelled' = TRUE
    /\ executor_cancels' = executor_cancels + 1

\* Cancel without RETURN_IF_ERROR(exec_status_).
CancelSignalsAlways(cur) == TRUE

\* Cancel with the test of exec_status_ inverted.
CancelSignalsOnError(cur) == cur # OK

\* FragmentExecState::Cancel, line 35: RETURN_IF_ERROR(exec_status_) lets the
\* call through to executor_.Cancel() only when exec_status_ is OK.
CancelSignals(cur) == cur = OK

\* No Cancel() call since the last other operation on the fragment.
ZeroRun == [calls |-> 0, signals |-> 0]

\* FragmentExecState::Cancel, lines 33-38.
Cancel ==
    /\ cancel_calls < MaxCancelCalls
    /\ cancel_calls' = cancel_calls + 1
    /\ IF CancelSignals(exec_status)
         THEN /\ ExecutorCancel
              /\ cancel_ret' = OK
              /\ cancel_run' = [calls |-> cancel_run.calls + 1,
                                signals |-> cancel_run.signals + 1]
         ELSE /\ cancel_ret' = exec_status
              /\ cancel_run' = [cancel_run EXCEPT !.calls = @ + 1]
              /\ UNCHANGED <<executor_cancelled, executor_cancels>>
    /\ UNCHANGED <<exec_status, upd, first_error, cbVars, logVars, rtVars,
                   auxVars>>

\* A direct call of FragmentExecState::UpdateStatus(status), lines 27-31.
UpdateStatusCall(status) ==
    /\ CallUpdateStatus(status)
    /\ UNCHANGED <<executor_cancelled, executor_cancels, cancel_calls,
                   cancel_ret, cbVars, logVars>>
    /\ cancel_run' = ZeroRun
    /\ UNCHANGED <<rtVars, auxVars>>

\* ---------------------------------------------------------- ReportStatusCb
\* TReportExecStatusParams params, line 72, before it is filled in.
NoParams == [status |-> "none", done |-> FALSE, error_log |-> <<>>,
             isset_error_log |-> FALSE, isset_insert_exec_status |-> FALSE]

\* Line 61 with the local taken from the argument: exec_status = status.
LocalExecStatusFromArgument(cur, status) == status

\* ReportStatusCb, line 61: the local exec_status is what UpdateStatus(status)
\* returns, the member exec_status_ after status has been folded in.
LocalExecStatus(cur, status) == UpdateStatus(cur, status)

\* ReportStatusCb, lines 60-61: DCHECK(status.ok() || done), then
\* exec_status = UpdateStatus(status).
ReportStatusCb_Begin(status, done) ==
    /\ cb_pc = "idle"
    /\ ~reporter_done
    /\ reports < MaxReports
    /\ status = OK \/ done
    /\ CallUpdateStatus(status)
    /\ cb_exec_status' = LocalExecStatus(exec_status, status)
    /\ cb_done' = done
    /\ cb_params' = NoParams
    /\ cb_trace' = <<>>
    /\ reports' = reports + 1
    /\ reporter_done' = done
    /\ cb_pc' = "client"
    /\ UNCHANGED <<executor_cancelled, executor_cancels, cancel_calls,
                   cancel_ret, coord_received, logVars>>
    /\ cancel_run' = ZeroRun
    /\ UNCHANGED <<rtVars, auxVars>>

\* ReportStatusCb, lines 63-70: get a client for the coordinator from the
\* cache; got says whether coord_status is OK.
ReportStatusCb_GetClient(got) ==
    /\ cb_pc = "client"
    /\ IF got
         THEN /\ cb_pc' = "build"
              /\ UNCHANGED <<exec_status, upd, first_error>>
              /\ UNCHANGED <<cb_done, cb_exec_status>>
         ELSE /\ CallUpdateStatus(NoClientStatus)
              /\ cb_pc' = "idle"
              /\ cb_done' = FALSE
              /\ cb_exec_status' = OK
    /\ UNCHANGED <<executor_cancelled, executor_cancels, cancel_calls,
                   cancel_ret, cb_params,
                   cb_trace, reports, reporter_done, coord_received, logVars>>
    /\ cancel_run' = ZeroRun
    /\ UNCHANGED <<rtVars, auxVars>>

\* ReportStatusCb, lines 72-104: build params; the insert status is set only
\* when done, and the unreported errors of the RuntimeState are drained into
\* params.error_log.
ReportStatusCb_BuildParams ==
    /\ cb_pc = "build"
    /\ LET errs == UnreportedErrors(<<>>, error_log, unreported_error_idx)
       IN  /\ cb_params' = [status |-> cb_exec_status,
                         done |-> cb_done,
                         error_log |-> errs,
                         isset_error_log |-> Len(errs) > 0,
                         isset_insert_exec_status |-> cb_done]
           /\ attached' = attached \o errs
    /\ unreported_error_idx' = AdvancedIdx(error_log, unreported_error_idx)
    /\ get_call' = GetCalled(get_call, <<>>)
    /\ cb_done' = FALSE
    /\ cb_exec_status' = OK
    /\ cb_pc' = "rpc1"
    /\ UNCHANGED <<fragVars, cb_trace,
                   reports, reporter_done, coord_received, max_errors,
                   error_log, n_log_calls, log_ret, new_errors>>
    /\ cancel_run' = ZeroRun
    /\ UNCHANGED <<rtVars, stVars, extVars>>

\* The coordinator's side of one ReportExecStatus call: a call that returns a
\* result has delivered params; a call that throws has not.
Delivered(outcome) == outcome \in {"ok", "err"}

\* The coordinator after a ReportExecStatus(res, params) call that ended in
\* outcome.
CoordReceive(outcome, params) ==
    coord_received' = IF Delivered(outcome)
                        THEN Append(coord_received, params)
                        ELSE coord_received

\* An inner handler that catches TException: every exception is retried.
InnerCatchesAny(outcome) == outcome \in {"transport", "texception"}

\* ReportStatusCb, line 111: the inner handler catches TTransportException
\* only.
InnerCatches(outcome) == outcome = "transport"

\* ReportStatusCb, lines 122-127: rpc_status after a call that the inner
\* handler did not catch: Status(res.status), or INTERNAL_ERROR when the outer
\* handler caught a TException.
RpcStatus(outcome) ==
    CASE outcome = "ok" -> OK
      [] outcome = "err" -> CoordErrorStatus
      [] OTHER -> RpcFailedStatus

\* Lines 130-135 without executor_.Cancel().
FinishNeverCancels(rpc_status) ==
    /\ cb_pc' = "idle"
    /\ cb_params' = NoParams
    /\ IF rpc_status # OK
         THEN CallUpdateStatus(rpc_status)
         ELSE UNCHANGED <<exec_status, upd, first_error>>
    /\ UNCHANGED <<executor_cancelled, executor_cancels>>

\* Lines 130-135 without the test of rpc_status.
FinishAlwaysCancels(rpc_status) ==
    /\ cb_pc' = "idle"
    /\ cb_params' = NoParams
    /\ CallUpdateStatus(rpc_status)
    /\ ExecutorCancel

\* ReportStatusCb, lines 130-135: a failed report cancels the fragment.
Finish(rpc_status) ==
    /\ cb_pc' = "idle"
    /\ cb_params' = NoParams
    /\ IF rpc_status # OK
         THEN /\ CallUpdateStatus(rpc_status)
              /\ ExecutorCancel
         ELSE UNCHANGED <<exec_status, upd, first_error, executor_cancelled,
                          executor_cancels>>

\* ReportStatusCb, lines 108-111 and 122-134: the first
\* coord->ReportExecStatus(res, params).
ReportStatusCb_Attempt1(outcome) ==
    /\ cb_pc = "rpc1"
    /\ cb_trace' = Append(cb_trace, "rpc_" \o outcome)
    /\ CoordReceive(outcome, cb_params)
    /\ IF InnerCatches(outcome)
         THEN /\ cb_pc' = "reopen"
              /\ UNCHANGED <<exec_status, upd, first_error,
                             executor_cancelled, executor_cancels, cb_params>>
         ELSE Finish(RpcStatus(outcome))
    /\ UNCHANGED <<cancel_calls, cancel_ret, cb_done,
                   cb_exec_status, reports, reporter_done, logVars>>
    /\ cancel_run' = ZeroRun
    /\ UNCHANGED <<rtVars, auxVars>>

\* ReportStatusCb, lines 112-119: rpc_status = coord.Reopen(); reopened says
\* whether it is OK.
ReportStatusCb_Reopen(reopened) ==
    /\ cb_pc = "reopen"
    /\ cb_trace' = Append(cb_trace, IF reopened THEN "reopen_ok"
                                                ELSE "reopen_fail")
    /\ IF reopened
         THEN /\ cb_pc' = "rpc2"
              /\ UNCHANGED <<exec_status, upd, first_error,
                             executor_cancelled, executor_cancels, cb_params>>
         ELSE /\ CallUpdateStatus(ReopenFailedStatus)
              /\ ExecutorCancel
              /\ cb_pc' = "idle"
              /\ cb_params' = NoParams
    /\ UNCHANGED <<cancel_calls, cancel_ret, cb_done,
                   cb_exec_status, reports, reporter_done,
                   coord_received, logVars>>
    /\ cancel_run' = ZeroRun
    /\ UNCHANGED <<rtVars, auxVars>>

\* ReportStatusCb, lines 120-134: the retried coord->ReportExecStatus(res,
\* params), made inside the inner handler: whatever it throws reaches the
\* outer handler.
ReportStatusCb_Attempt2(outcome) ==
    /\ cb_pc = "rpc2"
    /\ cb_trace' = Append(cb_trace, "rpc_" \o outcome)
    /\ CoordReceive(outcome, cb_params)
    /\ Finish(RpcStatus(outcome))
    /\ UNCHANGED <<cancel_calls, cancel_ret, cb_done,
                   cb_exec_status, reports, reporter_done, logVars>>
    /\ cancel_run' = ZeroRun
    /\ UNCHANGED <<rtVars, auxVars>>

\* ------------------------------------------------------ Prepare and Exec
\* Status of a failed executor_.Prepare(exec_params), line 43.
PrepareError == "PREPARE_ERROR"

\* FragmentExecState::Prepare, lines 43-44, with the calls in the other order.
PrepareCallsOptimizeFirst(prepared) ==
    IF prepared THEN <<"OptimizeLlvmModule", "Prepare">> ELSE <<"Prepare">>

\* FragmentExecState::Prepare, lines 43-44: the calls it makes on executor_;
\* RETURN_IF_ERROR leaves before OptimizeLlvmModule when Prepare fails.
PrepareCalls(prepared) ==
    IF prepared THEN <<"Prepare", "OptimizeLlvmModule">> ELSE <<"Prepare">>

\* FragmentExecState::Exec with Close before Open.
ExecCallsCloseFirst == <<"Close", "Open">>

\* FragmentExecState::Exec, lines 50-51: the calls it makes on executor_.
ExecCalls == <<"Open", "Close">>

\* A fragment just created: neither Prepare nor Exec has been called.
LifecycleInit ==
    /\ prepare_ret = "none"
    /\ exec_pc = "none"
    /\ executor_calls = <<>>

\* A fragment that is executing: Exec is in executor_.Open().
LifecycleAside ==
    /\ prepare_ret = OK
    /\ exec_pc = "open"
    /\ executor_calls = PrepareCalls(TRUE) \o <<ExecCalls[1]>>

\* The server calls Prepare once on a fragment it has created.
MayPrepare == prepare_ret = "none"

\* The server starts Exec, once, on a fragment whose Prepare returned OK.
MayExec == prepare_ret = OK /\ exec_pc = "none"

\* FragmentExecState::Prepare(exec_params), lines 40-46; prepared says
\* whether executor_.Prepare returns OK.
Prepare(prepared) ==
    /\ MayPrepare
    /\ executor_calls' = executor_calls \o PrepareCalls(prepared)
    /\ prepare_ret' = IF prepared THEN OK ELSE PrepareError
    /\ cancel_run' = ZeroRun
    /\ UNCHANGED exec_pc
    /\ UNCHANGED <<fragVars, cbVars, logVars, rtVars, stVars, histVars, restVars, clVars,
                   schVars, profVars>>

\* FragmentExecState::Exec, line 50: executor_.Open() is called, and runs
\* the fragment.
Exec_Open ==
    /\ MayExec
    /\ executor_calls' = Append(executor_calls, ExecCalls[1])
    /\ exec_pc' = "open"
    /\ cancel_run' = ZeroRun
    /\ UNCHANGED prepare_ret
    /\ UNCHANGED <<fragVars, cbVars, logVars, rtVars, stVars, histVars, restVars, clVars,
                   schVars, profVars>>

\* FragmentExecState::Exec, line 51: executor_.Open() has returned and
\* executor_.Close() is called.
Exec_Close ==
    /\ exec_pc = "open"
    /\ executor_calls' = Append(executor_calls, ExecCalls[2])
    /\ exec_pc' = "done"
    /\ cancel_run' = ZeroRun
    /\ UNCHANGED prepare_ret
    /\ UNCHANGED <<fragVars, cbVars, logVars, rtVars, stVars, histVars, restVars, clVars,
                   schVars, profVars>>

\* --------------------------------------------------------- SimpleScheduler
\* The backends there are, and the host each runs on.
Backends == {"b1", "b2", "b3"}
BackendHost == [b \in Backends |->
                   CASE b = "b1" -> "hostA" [] b = "b2" -> "hostB"
                     [] OTHER -> "hostA"]
\* The hosts that hold data; hostD runs no backend.
DataHosts == {"hostA", "hostB", "hostD"}
\* The locality lists of scan ranges.
HostLists == SUBSET DataHosts \ {{}}

\* The backends of list that run on host h, in list order.
BackendsOn(list, h) ==
    LET OnHost(b) == BackendHost[b] = h IN SelectSeq(list, OnHost)

\* A lookup that never finds the host (a map keyed by address asked by name).
HasLocalBackendNever(list, h) == FALSE

\* SimpleScheduler::HasLocalBackend, simple-scheduler.h lines 78-82: the map
\* has an entry for the host and the entry's list is not empty.
HasLocalBackend(list, h) == Len(BackendsOn(list, h)) > 0

\* backend_map_ (lines 112-114): the hosts that have an entry, in the order
\* the map iterates over them; the entry of a host holds BackendsOn it.
BackendMapHosts(list) ==
    LET F[i \in 0 .. Len(list)] ==
          IF i = 0 THEN <<>>
          ELSE IF \E j \in 1 .. (i - 1) :
                       BackendHost[list[j]] = BackendHost[list[i]]
                 THEN F[i - 1]
                 ELSE Append(F[i - 1], BackendHost[list[i]])
    IN  F[Len(list)]

\* No non-local scan range assigned to any backend.
NoneAssigned == [b \in Backends |-> 0]

\* The queries scheduled, each with its coordinator.
Queries == {"q1", "q2"}
CoordinatorOf == [q \in Queries |-> IF q = "q1" THEN "coord1" ELSE "coord2"]
\* The reservation ids and client resource ids the resource broker hands out.
ReservationIds == {"r1", "r2"}
ClientResourceIds == {"x1", "x2", "x3"}

\* A TResourceBrokerReservationResponse: no reservation, and a granted one.
NoReservation == [reservation_id |-> "none", allocated_resources |-> {}]
Reservation(rid, res) == [reservation_id |-> rid, allocated_resources |-> res]

\* No entry under an id of a map of active resources.
NoCoordinator == "none"

\* A scheduler with no query scheduled: both maps of active resources empty.
ReservationInit ==
    /\ active_reservations = [r \in ReservationIds |-> NoCoordinator]
    /\ active_client_resources = [x \in ClientResourceIds |-> NoCoordinator]
    /\ schedules = [q \in Queries |->
                       [state |-> "none", reservation |-> NoReservation]]

\* AddToActiveResourceMaps (lines 189-192): the ids map to the coordinator.
Added(map, ids, coord) ==
    [i \in DOMAIN map |-> IF i \in ids THEN coord ELSE map[i]]

\* RemoveFromActiveResourceMaps that empties a map.
ErasedAll(map, ids) == [i \in DOMAIN map |-> NoCoordinator]

\* RemoveFromActiveResourceMaps (lines 194-197): the ids leave the map.
Erased(map, ids) ==
    [i \in DOMAIN map |-> IF i \in ids THEN NoCoordinator ELSE map[i]]

\* Schedule with a resource broker that grants the reservation rid with the
\* client resources res, ids no other reservation holds.
Schedule_Granted(q, rid, res) ==
    /\ schedules[q].state = "none"
    /\ active_reservations[rid] = NoCoordinator
    /\ res # {}
    /\ \A x \in res : active_client_resources[x] = NoCoordinator
    /\ active_reservations' =
           Added(active_reservations, {rid}, CoordinatorOf[q])
    /\ active_client_resources' =
           Added(active_client_resources, res, CoordinatorOf[q])
    /\ schedules' = [schedules EXCEPT ![q] =
           [state |-> "scheduled", reservation |-> Reservation(rid, res)]]
    /\ UNCHANGED <<fragVars, cancel_run, cbVars, logVars, rtVars, stVars,
                   histVars, restVars, clVars, lcVars, assignVars, poolVars,
                   profVars>>

\* Schedule whose reservation request fails: nothing is registered.
Schedule_Failed(q) ==
    /\ schedules[q].state = "none"
    /\ schedules' = [schedules EXCEPT ![q] =
           [state |-> "failed", reservation |-> NoReservation]]
    /\ UNCHANGED <<active_reservations, active_client_resources>>
    /\ UNCHANGED <<fragVars, cancel_run, cbVars, logVars, rtVars, stVars,
                   histVars, restVars, clVars, lcVars, assignVars, poolVars,
                   profVars>>

\* Release of the schedule of q: its reservation and resources leave the
\* maps.
Release(q) ==
    /\ schedules[q].state = "scheduled"
    /\ LET r == schedules[q].reservation
       IN  /\ active_reservations' =
                  Erased(active_reservations, {r.reservation_id})
           /\ active_client_resources' =
                  Erased(active_client_resources, r.allocated_resources)
    /\ schedules' = [schedules EXCEPT ![q].state = "released"]
    /\ UNCHANGED <<fragVars, cancel_run, cbVars, logVars, rtVars, stVars,
                   histVars, restVars, clVars, lcVars, assignVars, poolVars,
                   profVars>>

\* The query of a released or failed schedule is gone; its name is used anew.
Forget(q) ==
    /\ schedules[q].state \in {"released", "failed"}
    /\ schedules' = [schedules EXCEPT ![q] =
           [state |-> "none", reservation |-> NoReservation]]
    /\ UNCHANGED <<active_reservations, active_client_resources>>
    /\ UNCHANGED <<fragVars, cancel_run, cbVars, logVars, rtVars, stVars,
                   histVars, restVars, clVars, lcVars, assignVars, poolVars,
                   profVars>>

\* The users that submit queries and the pools there are.
Users == {"u1", "u2"}
Pools == {"p1", "p2", "p3"}
\* The lists of pools a whitelist file gives a user (none: no entry).
PoolLists ==
    {<<>>} \cup {<<p>> : p \in Pools}
           \cup {l \in Pools \X Pools : l[1] # l[2]}
\* query_options.yarn_pool: a pool, or not set.
YarnPoolOptions == Pools \cup {"unset"}

PermissionDenied == "PermissionDenied"
NoPoolCall == [called |-> FALSE, user |-> "none", yarn_pool |-> "unset",
               ret |-> "none", pool |-> "none"]

\* A scheduler whose whitelist file was loaded by InitPoolWhitelist.
PoolInit ==
    /\ user_pool_whitelist \in [Users -> PoolLists]
    /\ default_pools \in SUBSET Pools
    /\ pool_call = NoPoolCall

\* A scheduler whose whitelist gives every user the pool p1.
PoolAside ==
    /\ user_pool_whitelist = [u \in Users |-> <<"p1">>]
    /\ default_pools = {"p1"}
    /\ pool_call = NoPoolCall

\* A GetYarnPool that looks at the default pools before the user's own.
YarnPoolResultsDefaultFirst(user, yarn_pool, whitelist, defaults) ==
    IF yarn_pool # "unset" THEN {[ret |-> OK, pool |-> yarn_pool]}
    ELSE IF defaults # {} THEN {[ret |-> OK, pool |-> p] : p \in defaults}
    ELSE IF Len(whitelist[user]) > 0
      THEN {[ret |-> OK, pool |-> whitelist[user][1]]}
    ELSE {[ret |-> PermissionDenied, pool |-> "none"]}

\* GetYarnPool (lines 99-104): the status and the pool it may return. A
\* yarn_pool that is set is returned without confirming that the user has
\* access to it; otherwise the first pool configured for the user, else a
\* default pool, else PermissionDenied.
YarnPoolResults(user, yarn_pool, whitelist, defaults) ==
    IF yarn_pool # "unset" THEN {[ret |-> OK, pool |-> yarn_pool]}
    ELSE IF Len(whitelist[user]) > 0
      THEN {[ret |-> OK, pool |-> whitelist[user][1]]}
    ELSE IF defaults # {} THEN {[ret |-> OK, pool |-> p] : p \in defaults}
    ELSE {[ret |-> PermissionDenied, pool |-> "none"]}

GetYarnPool(user, yarn_pool) ==
    /\ \E r \in YarnPoolResults(user, yarn_pool, user_pool_whitelist,
                                 default_pools) :
           pool_call' = [called |-> TRUE, user |-> user,
                         yarn_pool |-> yarn_pool, ret |-> r.ret,
                         pool |-> r.pool]
    /\ UNCHANGED <<user_pool_whitelist, default_pools>>
    /\ UNCHANGED <<fragVars, cancel_run, cbVars, logVars, rtVars, stVars,
                   histVars, restVars, clVars, lcVars, assignVars, resVars,
                   profVars>>

\* No scan range assigned yet.
NoAssignment == [hosts |-> {}, backend |-> "none", local |-> FALSE]

\* The round-robin state after construction and after a membership change.
ResetHostRR == [h \in DataHosts |-> 1]

\* A scheduler in static mode over the backends b1 and b2, or in dynamic
\* mode before the first membership update.
SchedulerInit ==
    /\ backend_list \in {<<>>, <<"b1", "b2">>}
    /\ host_rr = ResetHostRR
    /\ nonlocal_rr = 1
    /\ nonlocal_epoch = 0
    /\ map_epoch = 0
    /\ nonlocal_count = NoneAssigned
    /\ total_assignments = 0
    /\ total_local_assignments = 0
    /\ last_assignment = NoAssignment
    /\ ReservationInit
    /\ PoolAside

\* A scheduler in static mode over the backends b1 and b2.
SchedulerAside ==
    /\ backend_list = <<"b1", "b2">>
    /\ host_rr = ResetHostRR
    /\ nonlocal_rr = 1
    /\ nonlocal_epoch = 0
    /\ map_epoch = 0
    /\ nonlocal_count = NoneAssigned
    /\ total_assignments = 0
    /\ total_local_assignments = 0
    /\ last_assignment = NoAssignment
    /\ ReservationInit
    /\ PoolAside

\* The next position of a round-robin pointer over n entries.
NextRR(i, n) == (i % n) + 1

\* ComputeScanRangeAssignment for one scan range with locality list hosts:
\* a host of the list that has a backend gets the range, on the backend its
\* round-robin pointer stands at (a local assignment).
AssignLocal(hosts, h) ==
    /\ h \in hosts
    /\ HasLocalBackend(backend_list, h)
    /\ LET on == BackendsOn(backend_list, h)
       IN  /\ last_assignment' = [hosts |-> hosts, backend |-> on[host_rr[h]],
                                  local |-> TRUE]
           /\ host_rr' = [host_rr EXCEPT ![h] = NextRR(@, Len(on))]
    /\ total_local_assignments' = total_local_assignments + 1
    /\ UNCHANGED <<nonlocal_rr, nonlocal_epoch, map_epoch, nonlocal_count>>

\* ComputeScanRangeAssignment for one scan range none of whose hosts has a
\* backend: the entry of backend_map_ that next_nonlocal_backend_entry_
\* (lines 135-136) stands at gets it, on the backend the round-robin pointer
\* of that entry stands at, and the iterator moves to the next entry.
AssignNonLocal(hosts) ==
    /\ \A h \in hosts : ~HasLocalBackend(backend_list, h)
    /\ LET entries == BackendMapHosts(backend_list)
           h == entries[nonlocal_rr]
           on == BackendsOn(backend_list, h)
           b == on[host_rr[h]]
       IN  /\ last_assignment' = [hosts |-> hosts, backend |-> b,
                                  local |-> FALSE]
           /\ host_rr' = [host_rr EXCEPT ![h] = NextRR(@, Len(on))]
           /\ nonlocal_rr' = NextRR(nonlocal_rr, Len(entries))
           /\ nonlocal_count' = [nonlocal_count EXCEPT ![b] = @ + 1]
    /\ UNCHANGED <<nonlocal_epoch, map_epoch, total_local_assignments>>

\* The assignment of one scan range, while backends are known.
AssignRange(hosts) ==
    /\ total_assignments < MaxAssignments
    /\ Len(backend_list) > 0
    /\ \/ \E h \in hosts : AssignLocal(hosts, h)
       \/ AssignNonLocal(hosts)
    /\ total_assignments' = total_assignments + 1
    /\ UNCHANGED backend_list
    /\ UNCHANGED <<fragVars, cancel_run, cbVars, logVars, rtVars, stVars,
                   histVars, restVars, clVars, lcVars, resVars, poolVars,
                   profVars>>

\* The backend list after a membership delta about b: b leaves the list, or
\* joins it at the end.
Membership(list, b) ==
    LET Other(x) == x # b
    IN  IF \E i \in 1 .. Len(list) : list[i] = b
          THEN SelectSeq(list, Other)
          ELSE Append(list, b)

\* An UpdateMembership that leaves next_nonlocal_backend_entry_ alone.
NonLocalEntryKept(rr, epoch, new_epoch) == <<rr, epoch>>

\* next_nonlocal_backend_entry_ after UpdateMembership changed the map:
\* begin() of the map there is now.
NonLocalEntryReset(rr, epoch, new_epoch) == <<1, new_epoch>>

\* UpdateMembership: a delta adds or removes backend b, and the round-robin
\* state is reset, all under backend_map_lock_.
UpdateMembership(b) ==
    /\ map_epoch < MaxDeltas
    /\ backend_list' = Membership(backend_list, b)
    /\ map_epoch' = map_epoch + 1
    /\ host_rr' = ResetHostRR
    /\ LET it == NonLocalEntryReset(nonlocal_rr, nonlocal_epoch, map_epoch + 1)
       IN  /\ nonlocal_rr' = it[1]
           /\ nonlocal_epoch' = it[2]
    /\ nonlocal_count' = NoneAssigned
    /\ UNCHANGED <<total_assignments, total_local_assignments, last_assignment>>
    /\ UNCHANGED <<fragVars, cancel_run, cbVars, logVars, rtVars, stVars,
                   histVars, restVars, clVars, lcVars, resVars, poolVars,
                   profVars>>

\* ------------------------------------ RuntimeProfile::HighWaterMarkCounter
\* The deltas of Update calls and of TryUpdate calls.
Deltas == (-MaxDelta - 1) .. MaxDelta
TryDeltas == {-1, 1, 2}
\* The threads that call TryUpdate on one counter.
TryThreads == {"t1", "t2"}

\* AtomicInt::UpdateAndFetch: the value after adding delta.
UpdateAndFetch(v, delta) == v + delta

\* AtomicInt::UpdateMax: the larger of the value held and the one given.
UpdateMax(v, new_val) == IF new_val > v THEN new_val ELSE v

\* An Update that raises the high water mark by the delta.
HwmUpdatedByDelta(current, value, delta) ==
    [current |-> UpdateAndFetch(current, delta),
     value |-> UpdateMax(value, delta)]

\* HighWaterMarkCounter::Update (lines 128-131): the two members after it.
HwmUpdated(current, value, delta) ==
    LET new_val == UpdateAndFetch(current, delta)
    IN  [current |-> new_val, value |-> UpdateMax(value, new_val)]

\* A thread that is in no TryUpdate call.
NoTryCall == [pc |-> "idle", delta |-> 0, old_val |-> 0, new_val |-> 0,
              ret |-> "none", retried |-> FALSE]

\* A counter just constructed (line 126): both values 0, no call made.
HwmFresh ==
    /\ hwm_current = 0
    /\ hwm_value = 0
    /\ hwm_deltas = <<>>
    /\ try_calls = [t \in TryThreads |-> NoTryCall]
    /\ try_applied = 0
    /\ n_try_calls = 0

\* The names of counters and the values they hold before a Merge.
CounterNames == {"A", "C"}
CounterValues == 1 .. MaxCounterValue
\* The counters of one profile: a value under each name there is.
NodeCounters == UNION {[names -> CounterValues] : names \in SUBSET CounterNames}
\* A profile tree: the counters of each profile, under its path.
ProfileShapes == {{"root"}, {"root", "root/child"}}
ProfileTrees == UNION {[shape -> NodeCounters] : shape \in ProfileShapes}

\* A Merge that takes the value of the source, as Update does.
MergedCountersReplaced(dst, src) ==
    [n \in DOMAIN dst \cup DOMAIN src |->
        IF n \in DOMAIN src THEN src[n] ELSE dst[n]]

\* Merge on the counters of one profile: a counter of both is the sum of
\* the two, a counter of the source alone is created with its value.
MergedCounters(dst, src) ==
    [n \in DOMAIN dst \cup DOMAIN src |->
        IF n \notin DOMAIN src THEN dst[n]
        ELSE IF n \notin DOMAIN dst THEN src[n]
        ELSE dst[n] + src[n]]

\* No counter in a profile.
NoCounters == [n \in {} |-> 0]

\* Merge on a tree: a child the destination lacks is created, a child the
\* source lacks is left as it is.
Merged(dst, src) ==
    [p \in DOMAIN dst \cup DOMAIN src |->
        IF p \notin DOMAIN src THEN dst[p]
        ELSE MergedCounters(IF p \in DOMAIN dst THEN dst[p] ELSE NoCounters,
                            src[p])]

\* Two profile trees built, not merged yet.
MergeInit ==
    /\ prof_dst \in ProfileTrees
    /\ prof_src \in ProfileTrees
    /\ prof_dst0 = prof_dst
    /\ prof_src0 = prof_src
    /\ merged = FALSE

\* Two profiles without counters.
MergeAside ==
    /\ prof_dst = [p \in {"root"} |-> NoCounters]
    /\ prof_src = [p \in {"root"} |-> NoCounters]
    /\ prof_dst0 = prof_dst
    /\ prof_src0 = prof_src
    /\ merged = FALSE

\* prof_dst.Merge(prof_src).
Merge ==
    /\ ~merged
    /\ prof_dst' = Merged(prof_dst, prof_src)
    /\ merged' = TRUE
    /\ UNCHANGED <<prof_src, prof_dst0, prof_src0>>
    /\ UNCHANGED <<hwmVars, tryVars, cntVars>>
    /\ UNCHANGED <<fragVars, cancel_run, cbVars, logVars, rtVars, stVars,
                   histVars, restVars, clVars, lcVars, schVars>>

\* The types of counters.
CounterTypes == {"UNIT", "BYTES"}
NoCounterCall == [fn |-> "none", name |-> "none", ret |-> 0, existed |-> FALSE,
                  value |-> 0, n_counters |-> 0]

\* A profile just constructed: no counter added.
CountersFresh ==
    /\ counter_map = [n \in CounterNames |-> 0]
    /\ counters = <<>>
    /\ counter_call = NoCounterCall

\* An AddCounter that makes a counter whether or not the name is taken.
AddCounterMakesAlways(map, name) == TRUE

\* AddCounter makes a counter only when the name has no entry in
\* counter_map_ (lines 325, 479-480).
AddCounterMakes(map, name) == map[name] = 0

\* AddCounter(name, type): the counter under the name, made when there is
\* none.
AddCounter(name, type) ==
    /\ IF AddCounterMakes(counter_map, name)
         THEN /\ Len(counters) < MaxCounters
              /\ counters' = Append(counters, [type |-> type, value |-> 0])
              /\ counter_map' = [counter_map EXCEPT ![name] = Len(counters) + 1]
              /\ counter_call' = [fn |-> "AddCounter", name |-> name,
                                  ret |-> Len(counters) + 1,
                                  existed |-> counter_map[name] # 0,
                                  value |-> 0, n_counters |-> Len(counters) + 1]
         ELSE /\ counter_call' = [fn |-> "AddCounter", name |-> name,
                                  ret |-> counter_map[name], existed |-> TRUE,
                                  value |-> counters[counter_map[name]].value,
                                  n_counters |-> Len(counters)]
              /\ UNCHANGED <<counter_map, counters>>
    /\ UNCHANGED <<hwmVars, tryVars, mergeVars>>
    /\ UNCHANGED <<fragVars, cancel_run, cbVars, logVars, rtVars, stVars,
                   histVars, restVars, clVars, lcVars, schVars>>

\* GetCounter(name): the counter under the name, or NULL (0).
GetCounter(name) ==
    /\ counter_call' = [fn |-> "GetCounter", name |-> name,
                        ret |-> counter_map[name],
                        existed |-> counter_map[name] # 0,
                        value |-> IF counter_map[name] # 0
                                    THEN counters[counter_map[name]].value
                                    ELSE 0,
                        n_counters |-> Len(counters)]
    /\ UNCHANGED <<counter_map, counters>>
    /\ UNCHANGED <<hwmVars, tryVars, mergeVars>>
    /\ UNCHANGED <<fragVars, cancel_run, cbVars, logVars, rtVars, stVars,
                   histVars, restVars, clVars, lcVars, schVars>>

\* Counter::Update(1) (lines 92-94) on the counter object c, by the caller
\* that holds it.
CounterUpdate(c) ==
    /\ c \in 1 .. Len(counters)
    /\ counters[c].value < MaxCounterValue
    /\ counters' = [counters EXCEPT ![c].value = @ + 1]
    /\ counter_call' = [counter_call EXCEPT !.fn = "Update"]
    /\ UNCHANGED counter_map
    /\ UNCHANGED <<hwmVars, tryVars, mergeVars>>
    /\ UNCHANGED <<fragVars, cancel_run, cbVars, logVars, rtVars, stVars,
                   histVars, restVars, clVars, lcVars, schVars>>

\* A fresh counter and the max its TryUpdate callers pass, beside profiles
\* without counters.
ProfileInit ==
    /\ HwmFresh
    /\ try_max \in 0 .. MaxLimit
    /\ MergeAside
    /\ CountersFresh

\* A fresh counter whose TryUpdate callers pass the max 0, beside profiles
\* without counters.
ProfileAside ==
    /\ HwmFresh
    /\ try_max = 0
    /\ MergeAside
    /\ CountersFresh

\* HighWaterMarkCounter::Update(delta), called by the one thread that owns
\* the counter.
HwmUpdate(delta) ==
    /\ Len(hwm_deltas) < MaxUpdates
    /\ LET u == HwmUpdated(hwm_current, hwm_value, delta)
       IN  /\ hwm_current' = u.current
           /\ hwm_value' = u.value
    /\ hwm_deltas' = Append(hwm_deltas, delta)
    /\ UNCHANGED tryVars
    /\ UNCHANGED <<fragVars, cancel_run, cbVars, logVars, rtVars, stVars,
                   histVars, restVars, clVars, lcVars, schVars, mergeVars, cntVars>>

\* Thread t calls TryUpdate(delta, try_max).
TryUpdate_Call(t, delta) ==
    /\ n_try_calls < MaxTryCalls
    /\ try_calls[t].pc = "idle"
    /\ try_calls' = [try_calls EXCEPT ![t] =
           [NoTryCall EXCEPT !.pc = "read", !.delta = delta]]
    /\ n_try_calls' = n_try_calls + 1
    /\ UNCHANGED <<hwmVars, try_max, try_applied>>
    /\ UNCHANGED <<fragVars, cancel_run, cbVars, logVars, rtVars, stVars,
                   histVars, restVars, clVars, lcVars, schVars, mergeVars, cntVars>>

\* new_val > max (line 139).
TryExceeds(new_val, max) == new_val > max

\* TryUpdate lines 137-139: read current_value_ and return false when the
\* sum exceeds max.
TryUpdate_Read(t) ==
    /\ try_calls[t].pc = "read"
    /\ LET c == try_calls[t]
           old_val == hwm_current
           new_val == old_val + c.delta
       IN  try_calls' = [try_calls EXCEPT ![t] =
               IF TryExceeds(new_val, try_max)
                 THEN [c EXCEPT !.pc = "idle", !.old_val = old_val,
                                !.new_val = new_val, !.ret = "false"]
                 ELSE [c EXCEPT !.pc = "swap", !.old_val = old_val,
                                !.new_val = new_val]]
    /\ UNCHANGED <<hwmVars, try_max, try_applied, n_try_calls>>
    /\ UNCHANGED <<fragVars, cancel_run, cbVars, logVars, rtVars, stVars,
                   histVars, restVars, clVars, lcVars, schVars, mergeVars, cntVars>>

\* A Swap that stores whatever the value held is.
SwapsAlways(held, old_val) == TRUE

\* AtomicInt::Swap(old_val, new_val) (line 140) stores new_val and returns
\* true only when the value held is old_val.
Swaps(held, old_val) == held = old_val

\* TryUpdate line 140: the compare-and-swap; when it fails the loop starts
\* over.
TryUpdate_Swap(t) ==
    /\ try_calls[t].pc = "swap"
    /\ LET c == try_calls[t]
       IN  IF Swaps(hwm_current, c.old_val)
             THEN /\ hwm_current' = c.new_val
                  /\ try_applied' = try_applied + c.delta
                  /\ try_calls' = [try_calls EXCEPT ![t].pc = "max"]
             ELSE /\ try_calls' = [try_calls EXCEPT ![t].pc = "read",
                                                    ![t].retried = TRUE]
                  /\ UNCHANGED <<hwm_current, try_applied>>
    /\ UNCHANGED <<hwm_value, hwm_deltas, try_max, n_try_calls>>
    /\ UNCHANGED <<fragVars, cancel_run, cbVars, logVars, rtVars, stVars,
                   histVars, restVars, clVars, lcVars, schVars, mergeVars, cntVars>>

\* TryUpdate lines 141-142: raise the high water mark and return true.
TryUpdate_UpdateMax(t) ==
    /\ try_calls[t].pc = "max"
    /\ hwm_value' = UpdateMax(hwm_value, try_calls[t].new_val)
    /\ try_calls' = [try_calls EXCEPT ![t].pc = "idle", ![t].ret = "true"]
    /\ UNCHANGED <<hwm_current, hwm_deltas, try_max, try_applied, n_try_calls>>
    /\ UNCHANGED <<fragVars, cancel_run, cbVars, logVars, rtVars, stVars,
                   histVars, restVars, clVars, lcVars, schVars, mergeVars, cntVars>>

\* -------------------------------------------------------- ThriftClientImpl
\* Status of a failed CreateSocket, lines 81-84.
SocketError == "SOCKET_ERROR"
\* Status "Couldn't open transport for ...", lines 36-40.
OpenError == "OPEN_FAILED"

\* No Open() or Close() call yet. was: transport_ before the call; opened,
\* closed: the call called transport_->open(), transport_->close().
NoClientCall == [fn |-> "none", was |-> "null", opened |-> FALSE,
                 closed |-> FALSE, ret |-> "none"]

\* No OpenWithRetry call yet. attempts counts the Open() calls of the loop (up
\* to TryCountMod), wrapped says that try_count has wrapped around.
NoOwr == [pc |-> "idle", num_tries |-> 0, try_count |-> 0, attempts |-> 0,
          wrapped |-> FALSE, ret |-> "none"]

\* A client after construction: CreateSocket (lines 70-89) has returned
\* socket_create_status_, and there is a transport around the socket when
\* there is a socket.
ClientInit ==
    /\ socket_create_status \in {OK, SocketError}
    /\ transport = IF socket_create_status = OK THEN "closed" ELSE "null"
    /\ server_up \in BOOLEAN
    /\ client_call = NoClientCall
    /\ owr = NoOwr

\* A client constructed with a socket, its server up.
ClientAside ==
    /\ socket_create_status = OK
    /\ transport = "closed"
    /\ server_up = TRUE
    /\ client_call = NoClientCall
    /\ owr = NoOwr

\* Open without the isOpen() test of line 33.
OpenCallsTransportAlways(scs, tr) == scs = OK

\* ThriftClientImpl::Open, lines 31-35: transport_->open() is called when
\* the socket was created and the transport is not open.
OpenCallsTransport(scs, tr) == scs = OK /\ tr # "open"

\* ThriftClientImpl::Open, lines 30-43: the status it returns.
OpenStatus(scs, tr, up) ==
    IF scs # OK THEN scs
    ELSE IF OpenCallsTransport(scs, tr) /\ ~up THEN OpenError
    ELSE OK

\* ThriftClientImpl::Open, lines 33-35: the transport after the call; a
\* transport_->open() that throws leaves it closed.
OpenTransport(scs, tr, up) ==
    IF OpenCallsTransport(scs, tr) /\ up THEN "open" ELSE tr

\* ThriftClientImpl::Open(), lines 30-43, called directly or by OpenWithRetry.
CallOpen ==
    /\ transport' = OpenTransport(socket_create_status, transport, server_up)
    /\ client_call' = [fn |-> "Open", was |-> transport,
                       opened |-> OpenCallsTransport(socket_create_status,
                                                     transport),
                       closed |-> FALSE,
                       ret |-> OpenStatus(socket_create_status, transport,
                                          server_up)]

\* A call of ThriftClientImpl::Open(), lines 30-43.
Open ==
    /\ owr.pc = "idle"
    /\ CallOpen
    /\ UNCHANGED <<socket_create_status, server_up, owr>>
    /\ UNCHANGED <<fragVars, cancel_run, cbVars, logVars, rtVars, stVars,
                   histVars, restVars, lcVars, schVars, profVars>>

\* Close without the isOpen() test of line 67.
CloseCallsTransportUnchecked(tr) == tr # "null"

\* ThriftClientImpl::Close, line 67: transport_->close() is called when there
\* is a transport and it is open.
CloseCallsTransport(tr) == tr # "null" /\ tr = "open"

\* A call of ThriftClientImpl::Close(), lines 66-68.
Close ==
    /\ owr.pc = "idle"
    /\ transport' = IF CloseCallsTransport(transport) THEN "closed"
                                                      ELSE transport
    /\ client_call' = [fn |-> "Close", was |-> transport, opened |-> FALSE,
                       closed |-> CloseCallsTransport(transport),
                       ret |-> "void"]
    /\ UNCHANGED <<socket_create_status, server_up, owr>>
    /\ UNCHANGED <<fragVars, cancel_run, cbVars, logVars, rtVars, stVars,
                   histVars, restVars, lcVars, schVars, profVars>>

\* OpenWithRetry(num_tries, wait_ms), lines 45-46: the call enters the loop.
OpenWithRetry_Call(num_tries) ==
    /\ owr.pc = "idle"
    /\ owr' = [pc |-> "loop", num_tries |-> num_tries, try_count |-> 0,
               attempts |-> 0, wrapped |-> FALSE, ret |-> "none"]
    /\ UNCHANGED <<socket_create_status, transport, server_up, client_call>>
    /\ UNCHANGED <<fragVars, cancel_run, cbVars, logVars, rtVars, stVars,
                   histVars, restVars, lcVars, schVars, profVars>>

\* A loop that tests try_count > num_tries: one attempt too many.
OwrReturnsLate(status, num_tries, try_count) ==
    \/ status = OK
    \/ num_tries # 0 /\ try_count > num_tries

\* A loop without the test of num_tries == 0 (line 53).
OwrReturnsOnCount(status, num_tries, try_count) ==
    \/ status = OK
    \/ try_count = num_tries

\* OpenWithRetry, lines 50-61: the iteration returns status (try_count is the
\* counter after ++try_count).
OwrReturns(status, num_tries, try_count) ==
    \/ status = OK
    \/ num_tries # 0 /\ try_count = num_tries

\* OpenWithRetry, lines 47-63: one iteration of the loop, with the sleep that
\* follows an attempt that does not return.
OpenWithRetry_Attempt ==
    /\ owr.pc = "loop"
    /\ CallOpen
    /\ LET try_count == (owr.try_count + 1) % TryCountMod
           status == OpenStatus(socket_create_status, transport, server_up)
           returns == OwrReturns(status, owr.num_tries, try_count)
       IN  owr' = [owr EXCEPT
                     !.try_count = try_count,
                     !.attempts = IF @ < TryCountMod THEN @ + 1 ELSE @,
                     !.wrapped = @ \/ try_count = 0,
                     !.pc = IF returns THEN "idle" ELSE "loop",
                     !.ret = IF returns THEN status ELSE "none"]
    /\ UNCHANGED <<socket_create_status, server_up>>
    /\ UNCHANGED <<fragVars, cancel_run, cbVars, logVars, rtVars, stVars,
                   histVars, restVars, lcVars, schVars, profVars>>

\* The server goes down or comes up.
ServerChange ==
    /\ server_up' = ~server_up
    /\ UNCHANGED <<socket_create_status, transport, client_call, owr>>
    /\ UNCHANGED <<fragVars, cancel_run, cbVars, logVars, rtVars, stVars,
                   histVars, restVars, lcVars, schVars, profVars>>

\* ------------------------- RuntimeProfile: locks and caller-supplied code
\* The threads that call into one RuntimeProfile.
ProfThreads == {"p1", "p2"}

\* The child profiles, named by the key a comparator orders them by.
ChildIds == 1 .. MaxChildren

\* The comparators callers hand to SortChildren, by the order they define.
Comparators == {"ascending", "descending"}

\* A thread that is not in a call on the profile.
\* op: the operation; pc: where it stands; cmp: the comparator of a
\* SortChildren call; left: the derived counters still to evaluate.
NoProfCall == [op |-> "none", pc |-> "idle", cmp |-> "none", left |-> 0]

\* No caller-supplied function has been invoked.
NoCallback == [fn |-> "none", locks |-> {}]

\* A RuntimeProfile after construction: no children, no lock held.
LocksFresh ==
    /\ children = <<>>
    /\ children_lock = "none"
    /\ counter_map_lock = "none"
    /\ prof_call = [t \in ProfThreads |-> NoProfCall]
    /\ last_callback = NoCallback

\* The locks of the profile that thread t holds.
LocksHeld(t) ==
    {l \in {"children_lock_", "counter_map_lock_"} :
        \/ l = "children_lock_" /\ children_lock = t
        \/ l = "counter_map_lock_" /\ counter_map_lock = t}

\* cmp(a, b) of a comparator.
Before(cmp, a, b) == IF cmp = "ascending" THEN a < b ELSE a > b

\* std::sort(children_.begin(), children_.end(), cmp), line 303: the
\* children in the order of cmp.
Sorted(seq, cmp) ==
    CHOOSE s \in [1 .. Len(seq) -> {seq[i] : i \in 1 .. Len(seq)}] :
        /\ {s[i] : i \in 1 .. Len(seq)} = {seq[i] : i \in 1 .. Len(seq)}
        /\ \A i, j \in 1 .. Len(seq) : i < j => Before(cmp, s[i], s[j])

\* Thread t invokes the caller-supplied function fn.
Invoke(t, fn) == last_callback' = [fn |-> fn, locks |-> LocksHeld(t)]

\* RuntimeProfile::AddChild(child), with no location: under children_lock_,
\* the child is added at the end of children_.
AddChild(t, child) ==
    /\ prof_call[t].pc = "idle"
    /\ children_lock = "none"
    /\ Len(children) < MaxChildren
    /\ \A i \in 1 .. Len(children) : children[i] # child
    /\ children' = Append(children, child)
    /\ prof_call' = [prof_call EXCEPT ![t] = [NoProfCall EXCEPT !.op = "AddChild"]]
    /\ UNCHANGED <<children_lock, counter_map_lock, last_callback>>
    /\ UNCHANGED <<fragVars, cancel_run, cbVars, logVars, rtVars, stVars,
                   histVars, clVars, lcVars, schVars, profVars, raceVars, trkVars,
                   projVars>>

\* SortChildren(cmp), line 302: lock_guard l(children_lock_).
SortChildren_Lock(t, cmp) ==
    /\ prof_call[t].pc = "idle"
    /\ children_lock = "none"
    /\ children_lock' = t
    /\ prof_call' = [prof_call EXCEPT ![t] =
           [NoProfCall EXCEPT !.op = "SortChildren", !.pc = "sort",
                              !.cmp = cmp]]
    /\ UNCHANGED <<children, counter_map_lock, last_callback>>
    /\ UNCHANGED <<fragVars, cancel_run, cbVars, logVars, rtVars, stVars,
                   histVars, clVars, lcVars, schVars, profVars, raceVars, trkVars,
                   projVars>>

\* SortChildren(cmp), line 303: std::sort calls cmp on two children; it does
\* so only when there are two to compare.
SortChildren_Compare(t) ==
    /\ prof_call[t].pc = "sort"
    /\ Len(children) >= 2
    /\ Invoke(t, "cmp")
    /\ prof_call' = [prof_call EXCEPT ![t].pc = "sorted"]
    /\ UNCHANGED <<children, children_lock, counter_map_lock>>
    /\ UNCHANGED <<fragVars, cancel_run, cbVars, logVars, rtVars, stVars,
                   histVars, clVars, lcVars, schVars, profVars, raceVars, trkVars,
                   projVars>>

\* SortChildren(cmp), lines 303-304: std::sort returns with children_ in the
\* order of cmp, and the guard releases children_lock_.
SortChildren_Unlock(t) ==
    /\ \/ prof_call[t].pc = "sorted"
       \/ prof_call[t].pc = "sort" /\ Len(children) < 2
    /\ children' = Sorted(children, prof_call[t].cmp)
    /\ children_lock' = "none"
    /\ prof_call' = [prof_call EXCEPT ![t].pc = "idle"]
    /\ UNCHANGED <<counter_map_lock, last_callback>>
    /\ UNCHANGED <<fragVars, cancel_run, cbVars, logVars, rtVars, stVars,
                   histVars, clVars, lcVars, schVars, profVars, raceVars, trkVars,
                   projVars>>

\* The operations that read every counter's value.
Printers == {"PrettyPrint", "ToThrift"}

\* PrettyPrint or ToThrift: counter_map_lock_ is taken to copy counter_map_.
Print_Lock(t, op, derived) ==
    /\ prof_call[t].pc = "idle"
    /\ counter_map_lock = "none"
    /\ counter_map_lock' = t
    /\ prof_call' = [prof_call EXCEPT ![t] =
           [NoProfCall EXCEPT !.op = op, !.pc = "copy", !.left = derived]]
    /\ UNCHANGED <<children, children_lock, last_callback>>
    /\ UNCHANGED <<fragVars, cancel_run, cbVars, logVars, rtVars, stVars,
                   histVars, clVars, lcVars, schVars, profVars, raceVars, trkVars,
                   projVars>>

\* PrettyPrint or ToThrift: the copy is made and the lock released; they
\* hold no lock when they make function calls (lines 376 and 380).
Print_Unlock(t) ==
    /\ prof_call[t].pc = "copy"
    /\ counter_map_lock' = "none"
    /\ prof_call' = [prof_call EXCEPT ![t].pc = "values"]
    /\ UNCHANGED <<children, children_lock, last_callback>>
    /\ UNCHANGED <<fragVars, cancel_run, cbVars, logVars, rtVars, stVars,
                   histVars, clVars, lcVars, schVars, profVars, raceVars, trkVars,
                   projVars>>

\* PrettyPrint or ToThrift: value() of a DerivedCounter of the copy, which
\* calls its counter_fn_ (lines 170-172).
Print_Value(t) ==
    /\ prof_call[t].pc = "values"
    /\ prof_call[t].left > 0
    /\ Invoke(t, "counter_fn")
    /\ prof_call' = [prof_call EXCEPT ![t].left = @ - 1]
    /\ UNCHANGED <<children, children_lock, counter_map_lock>>
    /\ UNCHANGED <<fragVars, cancel_run, cbVars, logVars, rtVars, stVars,
                   histVars, clVars, lcVars, schVars, profVars, raceVars, trkVars,
                   projVars>>

\* PrettyPrint or ToThrift returns.
Print_Return(t) ==
    /\ prof_call[t].pc = "values"
    /\ prof_call[t].left = 0
    /\ prof_call' = [prof_call EXCEPT ![t].pc = "idle"]
    /\ UNCHANGED <<children, children_lock, counter_map_lock, last_callback>>
    /\ UNCHANGED <<fragVars, cancel_run, cbVars, logVars, rtVars, stVars,
                   histVars, clVars, lcVars, schVars, profVars, raceVars, trkVars,
                   projVars>>

\* ----------------- HighWaterMarkCounter: concurrent Update, Set, TryUpdate
\* The threads that call Update and Set on one counter.
HwmThreads == {"h1", "h2"}

\* The deltas and values those threads pass.
RaceDeltas == {-1, 2}
SetValues == {1}

\* A thread that is in no Update or Set call. new_val: the local new_val of
\* Update, or the argument v of Set.
NoHwmCall == [op |-> "none", pc |-> "idle", new_val |-> 0]

\* No Update or Set call has been made.
RaceFresh ==
    /\ hwm_calls = [t \in HwmThreads |-> NoHwmCall]
    /\ n_hwm_calls = 0

\* Update, line 129: new_val = current_value_.UpdateAndFetch(delta).
Update_Fetch(t, delta) ==
    /\ hwm_calls[t].pc = "idle"
    /\ n_hwm_calls < MaxHwmCalls
    /\ n_hwm_calls' = n_hwm_calls + 1
    /\ hwm_current' = UpdateAndFetch(hwm_current, delta)
    /\ hwm_calls' = [hwm_calls EXCEPT ![t] =
           [op |-> "Update", pc |-> "max",
            new_val |-> UpdateAndFetch(hwm_current, delta)]]
    /\ UNCHANGED <<hwm_value, hwm_deltas, tryVars, mergeVars, cntVars>>
    /\ UNCHANGED <<fragVars, cancel_run, cbVars, logVars, rtVars, stVars,
                   histVars, clVars, lcVars, schVars, lockVars, trkVars, projVars>>

\* Set, line 148: current_value_ = v.
Set_Store(t, v) ==
    /\ hwm_calls[t].pc = "idle"
    /\ n_hwm_calls < MaxHwmCalls
    /\ n_hwm_calls' = n_hwm_calls + 1
    /\ hwm_current' = v
    /\ hwm_calls' = [hwm_calls EXCEPT ![t] =
           [op |-> "Set", pc |-> "max", new_val |-> v]]
    /\ UNCHANGED <<hwm_value, hwm_deltas, tryVars, mergeVars, cntVars>>
    /\ UNCHANGED <<fragVars, cancel_run, cbVars, logVars, rtVars, stVars,
                   histVars, clVars, lcVars, schVars, lockVars, trkVars, projVars>>

\* A second step that hands UpdateMax the value_ held: the mark never moves.
RaisedMarkStale(value, new_val) == value

\* Update, line 130, and Set, line 149: value_.UpdateMax(new_val),
\* value_.UpdateMax(v).
RaisedMark(value, new_val) == UpdateMax(value, new_val)

\* The second step of an Update or Set call, after which it returns.
Hwm_UpdateMax(t) ==
    /\ hwm_calls[t].pc = "max"
    /\ hwm_value' = RaisedMark(hwm_value, hwm_calls[t].new_val)
    /\ hwm_calls' = [hwm_calls EXCEPT ![t].pc = "idle"]
    /\ UNCHANGED <<hwm_current, hwm_deltas, n_hwm_calls, tryVars, mergeVars,
                   cntVars>>
    /\ UNCHANGED <<fragVars, cancel_run, cbVars, logVars, rtVars, stVars,
                   histVars, clVars, lcVars, schVars, lockVars, trkVars, projVars>>

\* ------------------------------------------ RuntimeState: memory trackers
\* The fragment instances of one query on this node, each with its own
\* RuntimeState.
Instances == {"i1", "i2"}

\* The query_bytes_limit handed to InitMemTrackers (-1: no limit).
QueryLimits == {-1, 1}

\* No query-wide tracker.
NoTracker == [refs |-> 0, limit |-> -1, id |-> 0]

\* A RuntimeState before its constructor. query, instance, udf: the tracker
\* each pointer holds (0: none); instance holds the id of the query tracker
\* the instance tracker was created under.
NoTrackers == [pc |-> "none", query |-> 0, instance |-> 0, udf |-> FALSE]

\* No RuntimeState constructed.
TrackersFresh ==
    /\ query_tracker = NoTracker
    /\ trk = [i \in Instances |-> NoTrackers]

\* The constructors, lines 48-76: the tracker pointers are empty.
Construct(i) ==
    /\ trk[i].pc = "none"
    /\ trk' = [trk EXCEPT ![i].pc = "constructed"]
    /\ UNCHANGED query_tracker
    /\ UNCHANGED <<fragVars, cancel_run, cbVars, logVars, rtVars, stVars,
                   histVars, clVars, lcVars, schVars, profVars, lockVars,
                   raceVars, projVars>>

\* MemTracker::GetQueryMemTracker: the tracker of the query, created with
\* the limit given if no instance holds one.
GetQueryMemTracker(limit) ==
    IF query_tracker.refs = 0
      THEN [refs |-> 1, limit |-> limit, id |-> query_tracker.id + 1]
      ELSE [query_tracker EXCEPT !.refs = @ + 1]

\* InitMemTrackers, lines 119-121: query_mem_tracker_ is acquired.
InitMemTrackers_Query(i, query_bytes_limit) ==
    /\ trk[i].pc = "constructed"
    /\ query_tracker' = GetQueryMemTracker(query_bytes_limit)
    /\ trk' = [trk EXCEPT ![i].pc = "init_instance",
                          ![i].query = GetQueryMemTracker(query_bytes_limit).id]
    /\ UNCHANGED <<fragVars, cancel_run, cbVars, logVars, rtVars, stVars,
                   histVars, clVars, lcVars, schVars, profVars, lockVars,
                   raceVars, projVars>>

\* InitMemTrackers, lines 122-123: the instance tracker is created as a child
\* of query_mem_tracker_.get().
InitMemTrackers_Instance(i) ==
    /\ trk[i].pc = "init_instance"
    /\ trk' = [trk EXCEPT ![i].pc = "init_udf", ![i].instance = trk[i].query]
    /\ UNCHANGED query_tracker
    /\ UNCHANGED <<fragVars, cancel_run, cbVars, logVars, rtVars, stVars,
                   histVars, clVars, lcVars, schVars, profVars, lockVars,
                   raceVars, projVars>>

\* InitMemTrackers, lines 136-139: the UDF tracker and its pool.
InitMemTrackers_Udf(i) ==
    /\ trk[i].pc = "init_udf"
    /\ trk' = [trk EXCEPT ![i].pc = "ready", ![i].udf = TRUE]
    /\ UNCHANGED query_tracker
    /\ UNCHANGED <<fragVars, cancel_run, cbVars, logVars, rtVars, stVars,
                   histVars, clVars, lcVars, schVars, profVars, lockVars,
                   raceVars, projVars>>

\* A destructor that resets query_mem_tracker_ first.
DtorOrderQueryFirst == <<"query", "instance">>

\* ~RuntimeState, lines 80-83: instance_mem_tracker_.reset(), then
\* query_mem_tracker_.reset().
DtorOrder == <<"instance", "query">>

\* ~RuntimeState, line 79: the destructor starts, on a RuntimeState with or
\* without trackers; udf_pool_->FreeAll() frees no tracker.
Dtor_Begin(i) ==
    /\ trk[i].pc \in {"constructed", "ready"}
    /\ trk' = [trk EXCEPT ![i].pc = "dtor_1"]
    /\ UNCHANGED query_tracker
    /\ UNCHANGED <<fragVars, cancel_run, cbVars, logVars, rtVars, stVars,
                   histVars, clVars, lcVars, schVars, profVars, lockVars,
                   raceVars, projVars>>

\* shared_ptr::reset(): the reference is dropped, and the tracker is deleted
\* with the last one.
Released(held) ==
    IF held = 0 THEN query_tracker
    ELSE [query_tracker EXCEPT !.refs = @ - 1]

\* ~RuntimeState, lines 82-83: the k-th reset of the destructor.
Dtor_Reset(i, k) ==
    /\ trk[i].pc = IF k = 1 THEN "dtor_1" ELSE "dtor_2"
    /\ IF DtorOrder[k] = "instance"
         THEN /\ trk' = [trk EXCEPT
                           ![i].pc = IF k = 1 THEN "dtor_2" ELSE "dtor_members",
                           ![i].instance = 0]
              /\ UNCHANGED query_tracker
         ELSE /\ trk' = [trk EXCEPT
                           ![i].pc = IF k = 1 THEN "dtor_2" ELSE "dtor_members",
                           ![i].query = 0]
              /\ query_tracker' = Released(trk[i].query)
    /\ UNCHANGED <<fragVars, cancel_run, cbVars, logVars, rtVars, stVars,
                   histVars, clVars, lcVars, schVars, profVars, lockVars,
                   raceVars, projVars>>

\* ~RuntimeState, after the body: the members are destructed, udf_pool_ and
\* udf_mem_tracker_ among them.
Dtor_Members(i) ==
    /\ trk[i].pc = "dtor_members"
    /\ trk' = [trk EXCEPT ![i].pc = "destroyed", ![i].udf = FALSE]
    /\ UNCHANGED query_tracker
    /\ UNCHANGED <<fragVars, cancel_run, cbVars, logVars, rtVars, stVars,
                   histVars, clVars, lcVars, schVars, profVars, lockVars,
                   raceVars, projVars>>

\* ------------------------------------------------ Project (pythia operator)
\* The projection strings a configuration can hold, character by character.
ProjectionStrings ==
    {<<"$", "0">>, <<"$", "1">>, <<"$", "2">>, <<"$", "1", "2">>,
     <<"x", "$", "1">>, <<"$", "1", "x">>, <<"$", " ", "1">>,
     <<"$", "+", "1">>, <<"$", "-", "1">>, <<"$", "-", "0">>,
     <<"1">>, <<"$">>, <<"$", "x", "1">>, <<"$", "$", "1">>, <<>>}

\* The number of columns of the source schema.
ColumnCounts == {1, 2}

Digits == {"0", "1", "2"}
DigitValue(c) == CASE c = "0" -> 0 [] c = "1" -> 1 [] c = "2" -> 2

\* s.find('$'), line 48: the position of the first '$' (0: npos).
Find(s) ==
    IF \E i \in 1 .. Len(s) : s[i] = "$"
      THEN CHOOSE i \in 1 .. Len(s) :
               s[i] = "$" /\ \A j \in 1 .. i - 1 : s[j] # "$"
      ELSE 0

\* The digits at the front of r, read as a decimal number after acc.
RECURSIVE ReadDigits(_, _)
ReadDigits(r, acc) ==
    IF r = <<>> \/ Head(r) \notin Digits THEN acc
    ELSE ReadDigits(Tail(r), acc * 10 + DigitValue(Head(r)))

\* r without the whitespace at its front.
RECURSIVE SkipWhitespace(_)
SkipWhitespace(r) ==
    IF r # <<>> /\ Head(r) = " " THEN SkipWhitespace(Tail(r)) ELSE r

\* ss >> ret on an istringstream over r, lines 54-55: whitespace is skipped,
\* a sign is taken, and the digits that follow are read; the stream fails
\* when there is no digit. What follows the digits is left unread.
Extract(r) ==
    LET r1 == SkipWhitespace(r)
        signed == r1 # <<>> /\ Head(r1) \in {"-", "+"}
        r2 == IF signed THEN Tail(r1) ELSE r1
    IN  IF r2 = <<>> \/ Head(r2) \notin Digits
          THEN [ok |-> FALSE, ret |-> 0]
          ELSE [ok |-> TRUE,
                ret |-> IF signed /\ Head(r1) = "-" THEN -ReadDigits(r2, 0)
                                                    ELSE ReadDigits(r2, 0)]

\* parseInput(s), lines 46-57.
parseInput(s) ==
    IF Find(s) = 0 THEN -1
    ELSE LET ss == Extract(SubSeq(s, Find(s) + 1, Len(s)))
         IN  IF ss.ok THEN ss.ret ELSE -1

\* A test that lets the index one past the last column through.
AttributeExistsInclusive(projattr, ncolumns) == projattr <= ncolumns

\* Project::init, line 73: the input attribute exists.
AttributeExists(projattr, ncolumns) == projattr < ncolumns

\* A Project operator before init, with its configuration and the schema of
\* its source.
ProjectInit ==
    /\ node \in UNION {[1 .. n -> ProjectionStrings] : n \in 0 .. MaxProjections}
    /\ columns \in ColumnCounts
    /\ proj_idx = 0
    /\ projlist = <<>>
    /\ proj_status = "none"
    /\ map_wrapper_init = FALSE

\* A Project operator with an empty projection, before init.
ProjectAside ==
    /\ node = <<>>
    /\ columns = 1
    /\ proj_idx = 0
    /\ projlist = <<>>
    /\ proj_status = "none"
    /\ map_wrapper_init = FALSE

\* Project::init, lines 66-77: one iteration of the loop.
Project_init_Iterate ==
    /\ proj_status \in {"none", "running"}
    /\ proj_idx < Len(node)
    /\ LET projattr == parseInput(node[proj_idx + 1])
       IN  IF projattr <= -1
             THEN /\ proj_status' = "InvalidParameter"
                  /\ UNCHANGED <<proj_idx, projlist>>
             ELSE IF ~AttributeExists(projattr, columns)
             THEN /\ proj_status' = "IllegalSchemaDeclarationException"
                  /\ UNCHANGED <<proj_idx, projlist>>
             ELSE /\ projlist' = Append(projlist, projattr)
                  /\ proj_idx' = proj_idx + 1
                  /\ proj_status' = "running"
    /\ UNCHANGED <<node, columns, map_wrapper_init>>
    /\ UNCHANGED <<fragVars, cancel_run, cbVars, logVars, rtVars, stVars,
                   histVars, clVars, lcVars, schVars, profVars, lockVars,
                   raceVars, trkVars>>

\* Project::init, lines 79-80: the loop is over, MapWrapper::init runs and
\* init returns.
Project_init_MapWrapper ==
    /\ proj_status \in {"none", "running"}
    /\ proj_idx = Len(node)
    /\ map_wrapper_init' = TRUE
    /\ proj_status' = "returned"
    /\ UNCHANGED <<node, columns, proj_idx, projlist>>
    /\ UNCHANGED <<fragVars, cancel_run, cbVars, logVars, rtVars, stVars,
                   histVars, clVars, lcVars, schVars, profVars, lockVars,
                   raceVars, trkVars>>

\* The components added last, at rest.
RestAside == LocksFresh /\ RaceFresh /\ TrackersFresh /\ ProjectAside

\* ------------------------------------------------------------------- Init
\* A FragmentExecState after construction, before any call.
FragmentInit ==
    /\ exec_status = OK
    /\ executor_cancelled = FALSE
    /\ executor_cancels = 0
    /\ cancel_calls = 0
    /\ cancel_ret = "none"
    /\ cancel_run = ZeroRun
    /\ upd = [arg |-> "none", ret |-> "none"]
    /\ first_error = OK
    /\ cb_pc = "idle"
    /\ cb_done = FALSE
    /\ cb_exec_status = OK
    /\ cb_params = NoParams
    /\ cb_trace = <<>>
    /\ reports = 0
    /\ reporter_done = FALSE
    /\ coord_received = <<>>
    /\ attached = <<>>

\* The members of a RuntimeState that the constructor's initialisers set
\* (lines 51-60) or default-construct.
MembersInit ==
    /\ error_log = <<>>
    /\ unreported_error_idx = 0
    /\ n_log_calls = 0
    /\ log_ret = FALSE
    /\ new_errors = <<>>
    /\ get_call = NoGetCall
    /\ query_status = OK
    /\ is_cancelled = FALSE
    /\ limit_exceeded = "none"
    /\ pc = [w \in Workers |-> "idle"]
    /\ call = [w \in Workers |-> NoCall]
    /\ empty_call = NoEmptyCall

\* The components modelled apart, at rest in one of their initial states.
ComponentsAside ==
    ClientAside /\ LifecycleAside /\ SchedulerAside /\ ProfileAside
    /\ RestAside

\* A fragment whose RuntimeState has been constructed with Init returning OK.
Init ==
    /\ FragmentInit
    /\ MembersInit
    /\ ComponentsAside
    /\ max_errors \in {ClampMaxErrors(opt) : opt \in MaxErrorsOptions}
    /\ init_args = [max_errors |-> max_errors, batch_size |-> DEFAULT_BATCH_SIZE,
                    disable_codegen |-> TRUE]
    /\ init_status = OK
    /\ batch_size = DEFAULT_BATCH_SIZE
    /\ resource_pool = "registered"
    /\ total_timers = TotalTimers

\* The options of a RuntimeState about to be constructed.
StateUnconstructed ==
    /\ max_errors = NoArgs.max_errors
    /\ init_args = NoArgs
    /\ init_status = "none"
    /\ batch_size = NoArgs.batch_size
    /\ resource_pool = "NULL"
    /\ total_timers = {}

\* A RuntimeState about to be constructed.
Unconstructed ==
    /\ FragmentInit
    /\ MembersInit
    /\ StateUnconstructed
    /\ ComponentsAside

\* The fragment: the executor's reporting thread in ReportStatusCb, and
\* callers of Cancel and UpdateStatus. Every operation on the fragment other
\* than Cancel ends the current run of consecutive Cancel calls.
FragmentNext ==
    \/ Cancel
    \/ \E status \in ExecStatuses : UpdateStatusCall(status)
    \/ \E status \in ExecStatuses, done \in BOOLEAN :
           ReportStatusCb_Begin(status, done)
    \/ \E got \in BOOLEAN : ReportStatusCb_GetClient(got)
    \/ ReportStatusCb_BuildParams
    \/ \E outcome \in RpcOutcomes : ReportStatusCb_Attempt1(outcome)
    \/ \E reopened \in BOOLEAN : ReportStatusCb_Reopen(reopened)
    \/ \E outcome \in RpcOutcomes : ReportStatusCb_Attempt2(outcome)

FragmentSpec == Init /\ [][FragmentNext]_vars

\* Sizes of a failed allocation handed to SetMemLimitExceeded (0: none).
FailedSizes == {0, 50}

\* The RuntimeState: workers checking the query state and reporting failed
\* allocations, operators logging errors, trackers filling and draining,
\* a background error, cancellation, and a reporter draining the log into a
\* fresh vector, as ReportStatusCb does.
RuntimeNext ==
    \/ \E w \in Workers : CheckQueryState_Begin(w)
    \/ \E w \in Workers : CheckQueryState_End(w)
    \/ \E w \in Workers, size \in FailedSizes :
           SetMemLimitExceeded_Call(w, size)
    \/ \E w \in Workers : SetMemLimitExceeded_Log(w)
    \/ \E which \in {"none", "query", "process"} : TrackerChange(which)
    \/ SetQueryStatus
    \/ SetIsCancelled
    \/ LogError
    \/ GetUnreportedErrors(<<>>)

RuntimeSpec == Init /\ [][RuntimeNext]_vars

\* The error log of a RuntimeState from its construction on: operators
\* logging errors, a caller draining the log into a fresh vector or into the
\* one it used before, and callers of ErrorLogIsEmpty.
ErrorLogNext ==
    \/ \E opts \in QueryOptions, codegen_ok \in BOOLEAN :
           RuntimeStateCtor(opts, codegen_ok)
    \/ LogError
    \/ \E held \in {<<>>, new_errors} : GetUnreportedErrors(held)
    \/ ErrorLogIsEmpty

ErrorLogSpec == Unconstructed /\ [][ErrorLogNext]_vars

\* The reporting thread in ReportStatusCb while operators log errors.
ReportLogNext ==
    \/ \E status \in ExecStatuses, done \in BOOLEAN :
           ReportStatusCb_Begin(status, done)
    \/ \E got \in BOOLEAN : ReportStatusCb_GetClient(got)
    \/ ReportStatusCb_BuildParams
    \/ \E outcome \in RpcOutcomes : ReportStatusCb_Attempt1(outcome)
    \/ \E reopened \in BOOLEAN : ReportStatusCb_Reopen(reopened)
    \/ \E outcome \in RpcOutcomes : ReportStatusCb_Attempt2(outcome)
    \/ LogError

ReportLogSpec == Init /\ [][ReportLogNext]_vars

\* A ThriftClient after construction, next to a fragment not yet started.
ThriftInit ==
    /\ FragmentInit
    /\ MembersInit
    /\ StateUnconstructed
    /\ ClientInit
    /\ LifecycleInit
    /\ SchedulerAside
    /\ ProfileAside
    /\ RestAside

\* The owner of a ThriftClient calling Open, Close and OpenWithRetry, one
\* call at a time, while the server goes down and comes up.
ThriftNext ==
    \/ Open
    \/ Close
    \/ \E num_tries \in 0 .. MaxTries : OpenWithRetry_Call(num_tries)
    \/ OpenWithRetry_Attempt
    \/ ServerChange

ThriftSpec == ThriftInit /\ [][ThriftNext]_vars

\* A fragment just created, its RuntimeState not yet constructed.
CreatedInit ==
    /\ FragmentInit
    /\ MembersInit
    /\ StateUnconstructed
    /\ ClientAside
    /\ LifecycleInit
    /\ SchedulerAside
    /\ ProfileAside
    /\ RestAside

\* The server preparing and executing a fragment while Cancel and
\* UpdateStatus are called on it.
LifecycleNext ==
    \/ \E prepared \in BOOLEAN : Prepare(prepared)
    \/ Exec_Open
    \/ Exec_Close
    \/ Cancel
    \/ \E status \in ExecStatuses : UpdateStatusCall(status)

LifecycleSpec == CreatedInit /\ [][LifecycleNext]_vars

\* A scheduler just constructed, beside a fragment that is not looked at.
SchedulerStart ==
    /\ FragmentInit
    /\ MembersInit
    /\ StateUnconstructed
    /\ ClientAside
    /\ LifecycleAside
    /\ SchedulerInit
    /\ ProfileAside
    /\ RestAside

\* The coordinator assigning scan ranges while the statestore delivers
\* membership deltas.
SchedulerNext ==
    \/ \E hosts \in HostLists : AssignRange(hosts)
    \/ \E b \in Backends : UpdateMembership(b)

SchedulerSpec == SchedulerStart /\ [][SchedulerNext]_vars

\* Queries being scheduled with a resource broker, and released.
ReservationNext ==
    \/ \E q \in Queries, rid \in ReservationIds,
          res \in SUBSET ClientResourceIds : Schedule_Granted(q, rid, res)
    \/ \E q \in Queries : Schedule_Failed(q)
    \/ \E q \in Queries : Release(q)
    \/ \E q \in Queries : Forget(q)

ReservationSpec == Init /\ [][ReservationNext]_vars

\* A scheduler with a whitelist loaded, beside a fragment that is not
\* looked at.
PoolStart ==
    /\ FragmentInit
    /\ MembersInit
    /\ StateUnconstructed
    /\ ClientAside
    /\ LifecycleAside
    /\ backend_list = <<"b1", "b2">>
    /\ host_rr = ResetHostRR
    /\ nonlocal_rr = 1
    /\ nonlocal_epoch = 0
    /\ map_epoch = 0
    /\ nonlocal_count = NoneAssigned
    /\ total_assignments = 0
    /\ total_local_assignments = 0
    /\ last_assignment = NoAssignment
    /\ ReservationInit
    /\ PoolInit
    /\ ProfileAside
    /\ RestAside

\* Users asking for the pool of a query.
PoolNext ==
    \E user \in Users, yarn_pool \in YarnPoolOptions :
        GetYarnPool(user, yarn_pool)

PoolSpec == PoolStart /\ [][PoolNext]_vars

\* A fresh HighWaterMarkCounter, beside a fragment that is not looked at.
ProfileStart ==
    /\ FragmentInit
    /\ MembersInit
    /\ StateUnconstructed
    /\ ClientAside
    /\ LifecycleAside
    /\ SchedulerAside
    /\ ProfileInit
    /\ RestAside

\* One thread updating its counter.
HwmNext == \E delta \in Deltas : HwmUpdate(delta)

HwmSpec == ProfileStart /\ [][HwmNext]_vars

\* Threads calling TryUpdate on one counter with the same max.
TryNext ==
    \/ \E t \in TryThreads, delta \in TryDeltas : TryUpdate_Call(t, delta)
    \/ \E t \in TryThreads : TryUpdate_Read(t)
    \/ \E t \in TryThreads : TryUpdate_Swap(t)
    \/ \E t \in TryThreads : TryUpdate_UpdateMax(t)

TrySpec == ProfileStart /\ [][TryNext]_vars

\* Two profile trees built, beside a fragment that is not looked at.
MergeStart ==
    /\ FragmentInit
    /\ MembersInit
    /\ StateUnconstructed
    /\ ClientAside
    /\ LifecycleAside
    /\ SchedulerAside
    /\ HwmFresh
    /\ try_max = 0
    /\ MergeInit
    /\ CountersFresh
    /\ RestAside

\* One profile merged into the other.
MergeNext == Merge

MergeSpec == MergeStart /\ [][MergeNext]_vars

\* The owner of a profile adding, looking up and updating its counters.
CounterNext ==
    \/ \E name \in CounterNames, type \in CounterTypes : AddCounter(name, type)
    \/ \E name \in CounterNames : GetCounter(name)
    \/ \E c \in 1 .. MaxCounters : CounterUpdate(c)

CounterSpec == ProfileStart /\ [][CounterNext]_vars

\* Threads adding children to a profile, sorting them, and printing or
\* serializing the profile.
LockNext ==
    \/ \E t \in ProfThreads, child \in ChildIds : AddChild(t, child)
    \/ \E t \in ProfThreads, cmp \in Comparators : SortChildren_Lock(t, cmp)
    \/ \E t \in ProfThreads : SortChildren_Compare(t)
    \/ \E t \in ProfThreads : SortChildren_Unlock(t)
    \/ \E t \in ProfThreads, op \in Printers, derived \in 0 .. MaxDerived :
           Print_Lock(t, op, derived)
    \/ \E t \in ProfThreads : Print_Unlock(t)
    \/ \E t \in ProfThreads : Print_Value(t)
    \/ \E t \in ProfThreads : Print_Return(t)

LockSpec == Unconstructed /\ [][LockNext]_vars

\* The thread that calls TryUpdate beside the threads of Update and Set, and
\* the deltas it passes.
RaceTryThread == "t1"
RaceTryDeltas == {1}

\* Threads calling Update, Set and TryUpdate on one counter.
RaceNext ==
    \/ \E t \in HwmThreads, delta \in RaceDeltas : Update_Fetch(t, delta)
    \/ \E t \in HwmThreads, v \in SetValues : Set_Store(t, v)
    \/ \E t \in HwmThreads : Hwm_UpdateMax(t)
    \/ \E delta \in RaceTryDeltas : TryUpdate_Call(RaceTryThread, delta)
    \/ TryUpdate_Read(RaceTryThread)
    \/ TryUpdate_Swap(RaceTryThread)
    \/ TryUpdate_UpdateMax(RaceTryThread)

RaceSpec == ProfileStart /\ [][RaceNext]_vars

\* The RuntimeStates of the fragment instances of one query: constructed,
\* given their trackers, and destructed.
TrackerNext ==
    \/ \E i \in Instances : Construct(i)
    \/ \E i \in Instances, limit \in QueryLimits :
           InitMemTrackers_Query(i, limit)
    \/ \E i \in Instances : InitMemTrackers_Instance(i)
    \/ \E i \in Instances : InitMemTrackers_Udf(i)
    \/ \E i \in Instances : Dtor_Begin(i)
    \/ \E i \in Instances, k \in {1, 2} : Dtor_Reset(i, k)
    \/ \E i \in Instances : Dtor_Members(i)

TrackerSpec == Unconstructed /\ [][TrackerNext]_vars

\* A Project operator with its configuration, beside a fragment that is not
\* looked at.
ProjectStart ==
    /\ FragmentInit
    /\ MembersInit
    /\ StateUnconstructed
    /\ ClientAside
    /\ LifecycleAside
    /\ SchedulerAside
    /\ ProfileAside
    /\ LocksFresh
    /\ RaceFresh
    /\ TrackersFresh
    /\ ProjectInit

\* Project::init, called once on the operator.
ProjectNext ==
    \/ Project_init_Iterate
    \/ Project_init_MapWrapper

ProjectSpec == ProjectStart /\ [][ProjectNext]_vars

\* The thread in OpenWithRetry keeps running: a sleep returns and the next
\* attempt is made.
ThriftLiveSpec == ThriftSpec /\ WF_vars(OpenWithRetry_Attempt)

\* ------------------------------------------------------------------ claims

\* C1: once a non-OK status has been applied while exec_status_ was OK,
\* exec_status_ equals that first non-OK status in every later state, whatever
\* UpdateStatus calls follow (OK or another error), and every later
\* UpdateStatus call returns that status.
C1_StatusSticky ==
    first_error # OK => /\ exec_status = first_error
                        /\ upd.ret = first_error

\* A later UpdateStatus call was given another error than the first.
C1_Witness ==
    /\ first_error # OK
    /\ upd.arg \notin {OK, "none", first_error}

RpcCalls(t) == {i \in 1 .. Len(t) : t[i] \in {"rpc_" \o o : o \in RpcOutcomes}}
ReopenCalls(t) == {i \in 1 .. Len(t) : t[i] \in {"reopen_ok", "reopen_fail"}}

\* C2: within one ReportStatusCb invocation at most one Reopen() and at most
\* two ReportExecStatus attempts are made; a second attempt is made only after
\* a transport exception on the first followed by a successful Reopen(); a
\* first attempt that ends otherwise (a result, or an exception that is not a
\* transport exception) is final: no Reopen and no retry follow.
C2_RetryDiscipline ==
    /\ Cardinality(ReopenCalls(cb_trace)) <= 1
    /\ Cardinality(RpcCalls(cb_trace)) <= 2
    /\ Cardinality(RpcCalls(cb_trace)) = 2 =>
           /\ Len(cb_trace) = 3
           /\ cb_trace[1] = "rpc_transport"
           /\ cb_trace[2] = "reopen_ok"
    /\ ReopenCalls(cb_trace) # {} =>
           /\ cb_trace[1] = "rpc_transport"
           /\ ReopenCalls(cb_trace) = {2}
    /\ (Len(cb_trace) >= 1 /\ cb_trace[1] # "rpc_transport") =>
           Len(cb_trace) = 1

\* An invocation that made the second attempt.
C2_Witness ==
    /\ Len(cb_trace) = 3
    /\ Cardinality(RpcCalls(cb_trace)) = 2

\* The first attempt threw a transport exception and then the Reopen() failed
\* or the retried call failed (threw, or returned a non-OK result).
RetryFailed(t) ==
    /\ Len(t) >= 2
    /\ t[1] = "rpc_transport"
    /\ \/ t[2] = "reopen_fail"
       \/ Len(t) = 3 /\ t[3] # "rpc_ok"

\* The status of that failure.
RetryFailure(t) ==
    CASE t[2] = "reopen_fail" -> ReopenFailedStatus
      [] t[3] = "rpc_err" -> CoordErrorStatus
      [] OTHER -> RpcFailedStatus

\* C3: when, after a transport exception on the first attempt, the Reopen()
\* or the retried RPC fails, the callback returns with exec_status_ non-OK
\* (the failure itself if exec_status_ was OK) and executor_.Cancel() called.
C3_RetryFailureCancels ==
    [][(cb_trace' # cb_trace /\ RetryFailed(cb_trace')) =>
          /\ cb_pc' = "idle"
          /\ exec_status' # OK
          /\ exec_status = OK => exec_status' = RetryFailure(cb_trace')
          /\ executor_cancelled'
          /\ executor_cancels' = executor_cancels + 1]_vars

\* The callback has returned from a failed retry that it recorded.
C3_Witness ==
    /\ cb_pc = "idle"
    /\ RetryFailed(cb_trace)
    /\ Len(cb_trace) = 3
    /\ exec_status = RetryFailure(cb_trace)
    /\ executor_cancelled

S5 == <<"rpc_transport", "reopen_ok", "rpc_ok">>

\* C4: when the first attempt throws a transport exception, Reopen() succeeds
\* and the second attempt returns an OK result, no step of that exchange
\* changes exec_status_ or cancels the executor, and the coordinator receives
\* exactly one report from the invocation, carrying the params built for it.
C4_RetrySucceeds ==
    [][(cb_trace' # cb_trace
          /\ cb_trace' \in {SubSeq(S5, 1, n) : n \in 1 .. 3}) =>
          /\ exec_status' = exec_status
          /\ executor_cancelled' = executor_cancelled
          /\ executor_cancels' = executor_cancels
          /\ IF cb_trace' = S5
               THEN /\ coord_received' = Append(coord_received, cb_params)
                    /\ cb_params # NoParams
                    /\ cb_pc' = "idle"
               ELSE coord_received' = coord_received]_vars

\* The callback has returned from a retry that succeeded; the fragment is
\* still OK and not cancelled.
C4_Witness ==
    /\ cb_pc = "idle"
    /\ cb_trace = S5
    /\ exec_status = OK
    /\ ~executor_cancelled
    /\ Len(coord_received) >= 1

\* A step that is a call of FragmentExecState::Cancel().
CancelStep == cancel_calls' = cancel_calls + 1

\* C5 as stated: after Cancel() is called while exec_status_ is OK,
\* exec_status_ is CANCELLED and the executor has been signalled.
C5_CancelRecordsCancelled ==
    [][(CancelStep /\ exec_status = OK) =>
          /\ exec_status' = "CANCELLED"
          /\ executor_cancelled']_vars

\* C5 as amended: after Cancel() is called while exec_status_ is OK, the
\* executor has been signalled and OK is returned; exec_status_ is left as it
\* was (OK): Cancel() itself records nothing.
C5_CancelSignalsOnly ==
    [][(CancelStep /\ exec_status = OK) =>
          /\ exec_status' = OK
          /\ executor_cancelled'
          /\ executor_cancels' = executor_cancels + 1
          /\ cancel_ret' = OK]_vars

\* Cancel() was called while exec_status_ was OK, and it still is.
C5_Witness ==
    /\ cancel_calls >= 1
    /\ cancel_ret = OK
    /\ executor_cancelled
    /\ executor_cancels >= 1
    /\ exec_status = OK

\* C6 as stated: over a run of Cancel() calls with nothing in between, the
\* executor is signalled at most once and the second and later calls leave
\* the fragment state as the first call left it.
C6_CancelSignalsOnce ==
    [][(CancelStep /\ cancel_run.calls >= 1) =>
          /\ cancel_run'.signals <= 1
          /\ exec_status' = exec_status
          /\ executor_cancelled' = executor_cancelled]_vars

\* C6 as amended: over a run of Cancel() calls with nothing in between, the
\* second and later calls leave exec_status_ and the executor's cancelled
\* state as the first call left them and return what it returned; the
\* executor is signalled once by every call of the run if exec_status_ is OK,
\* and by none otherwise.
C6_CancelIdempotentState ==
    [][(CancelStep /\ cancel_run.calls >= 1) =>
          /\ exec_status' = exec_status
          /\ executor_cancelled' = executor_cancelled
          /\ cancel_ret' = cancel_ret
          /\ cancel_run'.signals =
                 IF exec_status = OK THEN cancel_run'.calls ELSE 0]_vars

\* Two Cancel() calls in a row, each of which signalled the executor.
C6_Witness ==
    /\ cancel_run.calls >= 2
    /\ cancel_run.signals >= 2
    /\ exec_status = OK

\* A step in which worker w takes query_status_lock_ in SetMemLimitExceeded,
\* called directly or from CheckQueryState.
SetMemLimitExceeded_LockStep(w) ==
    \/ /\ pc[w] = "idle"
       /\ call'[w].fn = "SetMemLimitExceeded"
       /\ <<pc'[w], call'[w]>> # <<pc[w], call[w]>>
    \/ /\ pc[w] = "cqs"
       /\ call[w].saw_exceeded
       /\ pc'[w] # "cqs"

\* C7: SetMemLimitExceeded changes query_status_ to MEM_LIMIT_EXCEEDED if and
\* only if it was OK when the call took the status lock, and that call then
\* returns MEM_LIMIT_EXCEEDED; a call that finds query_status_ non-OK leaves
\* it unchanged and returns it, so a second call returns what the first
\* returned without rewriting.
C7_SetMemLimitExceededOnce ==
    [][\A w \in Workers :
         /\ SetMemLimitExceeded_LockStep(w) =>
              /\ query_status = OK =>
                   /\ query_status' = MemLimitExceeded
                   /\ pc'[w] = "sml_log"
              /\ query_status # OK =>
                   /\ query_status' = query_status
                   /\ pc'[w] = "idle"
                   /\ call'[w].ret = query_status
         /\ (pc[w] = "sml_log" /\ pc'[w] = "idle") =>
              /\ query_status' = query_status
              /\ call'[w].ret = MemLimitExceeded]_vars

\* A SetMemLimitExceeded call that found MEM_LIMIT_EXCEEDED already set and
\* returned it.
C7_Witness ==
    \E w \in Workers :
        /\ pc[w] = "idle"
        /\ call[w].fn = "SetMemLimitExceeded"
        /\ call[w].seen = MemLimitExceeded
        /\ call[w].ret = MemLimitExceeded

\* Worker w has returned from a CheckQueryState call that saw a tracker limit
\* exceeded.
CheckedWithLimitExceeded(w) ==
    /\ pc[w] = "idle"
    /\ call[w].fn = "CheckQueryState"
    /\ call[w].saw_exceeded

\* C8 as stated: whenever a tracker on the ancestor chain reports its limit
\* exceeded, CheckQueryState returns MEM_LIMIT_EXCEEDED and query_status_ is
\* MEM_LIMIT_EXCEEDED afterwards, whatever query_status_ held before.
C8_MemLimitAlwaysWins ==
    \A w \in Workers :
        CheckedWithLimitExceeded(w) =>
            /\ call[w].ret = MemLimitExceeded
            /\ query_status = MemLimitExceeded

\* C8 as amended: when CheckQueryState sees a tracker limit exceeded it
\* never returns OK, whatever the cancellation flag: it returns
\* MEM_LIMIT_EXCEEDED, and query_status_ is MEM_LIMIT_EXCEEDED afterwards, if
\* query_status_ was OK when it took the status lock; otherwise it returns
\* the non-OK status query_status_ already held and leaves it in place.
C8_MemLimitWinsFromOk ==
    \A w \in Workers :
        CheckedWithLimitExceeded(w) =>
            /\ call[w].ret # OK
            /\ query_status = call[w].ret
            /\ call[w].seen = OK => call[w].ret = MemLimitExceeded
            /\ call[w].seen # OK => call[w].ret = call[w].seen

\* CheckQueryState saw a limit exceeded on a cancelled query whose status was
\* OK, and returned MEM_LIMIT_EXCEEDED.
C8_Witness ==
    \E w \in Workers :
        /\ CheckedWithLimitExceeded(w)
        /\ call[w].was_cancelled
        /\ call[w].seen = OK
        /\ call[w].ret = MemLimitExceeded

\* C9: CheckQueryState does not report cancellation: when is_cancelled_ is
\* set, no tracker limit was seen exceeded and query_status_ is OK, it returns
\* OK and leaves query_status_ and is_cancelled_ unchanged.
C9_CancellationNotReported ==
    [][\A w \in Workers :
         (/\ pc[w] = "cqs"
          /\ ~call[w].saw_exceeded
          /\ pc'[w] = "idle"
          /\ is_cancelled
          /\ query_status = OK) =>
              /\ call'[w].ret = OK
              /\ query_status' = query_status
              /\ is_cancelled' = is_cancelled]_vars

\* CheckQueryState returned OK on a cancelled query.
C9_Witness ==
    \E w \in Workers :
        /\ pc[w] = "idle"
        /\ call[w].fn = "CheckQueryState"
        /\ ~call[w].saw_exceeded
        /\ call[w].was_cancelled
        /\ call[w].ret = OK

\* A step that calls LogError(string): an operator's call, or the call
\* SetMemLimitExceeded makes.
LogErrorStep ==
    \/ n_log_calls' = n_log_calls + 1
    \/ \E w \in Workers : pc[w] = "sml_log" /\ pc'[w] = "idle"

\* C10: the error log never holds more than max_errors entries; a LogError
\* call on a full log appends nothing, returns false and leaves the log and
\* the watermark of unreported errors unchanged.
C10_ErrorLogBounded ==
    /\ [](Len(error_log) <= max_errors)
    /\ [][(LogErrorStep /\ Len(error_log) >= max_errors) =>
             /\ error_log' = error_log
             /\ unreported_error_idx' = unreported_error_idx
             /\ (n_log_calls' = n_log_calls + 1 => log_ret' = FALSE)]_vars

\* An operator's LogError call found the log full and returned false.
C10_Witness ==
    /\ Len(error_log) = max_errors
    /\ n_log_calls > 0
    /\ log_ret = FALSE

\* A step that is a GetUnreportedErrors call (a call that repeats the one
\* before it in every respect leaves the state as it is).
GetUnreportedErrorsStep == get_call' # get_call /\ get_call'.run >= 1

\* C11: a GetUnreportedErrors call returns exactly the entries logged since
\* the previous call, and the second of two calls with no LogError call in
\* between returns an empty list, whatever the list passed in held.
C11_SecondCallReturnsEmpty ==
    [][GetUnreportedErrorsStep =>
          /\ new_errors' = SubSeq(error_log, unreported_error_idx + 1,
                                  Len(error_log))
          /\ (get_call'.run = 2 => new_errors' = <<>>)]_vars

\* C13: ErrorLogIsEmpty() returns true if and only if the error log holds no
\* entry.
C13_ErrorLogIsEmptyByName ==
    empty_call.called => (empty_call.ret <=> empty_call.size = 0)

\* The step of ReportStatusCb that attaches the error log (lines 102-104).
AttachStep == cb_pc = "build" /\ cb_pc' = "rpc1"

\* C12: the error_log attached to a report is the entries LogError appended
\* since the previous GetUnreportedErrors call, in log order: the logs
\* attached so far, joined, are the log up to the watermark, which no other
\* step moves; after attaching, the watermark is the log size; and error_log
\* is marked present iff an entry is attached.
C12_ReportAttachesNewErrors ==
    /\ [](attached = SubSeq(error_log, 1, unreported_error_idx))
    /\ [][/\ AttachStep =>
               /\ cb_params'.error_log =
                      SubSeq(error_log, unreported_error_idx + 1, Len(error_log))
               /\ unreported_error_idx' = Len(error_log')
               /\ cb_params'.isset_error_log <=> Len(cb_params'.error_log) > 0
          /\ ~AttachStep => unreported_error_idx' = unreported_error_idx
          /\ Len(error_log') >= Len(error_log)
          /\ SubSeq(error_log', 1, Len(error_log)) = error_log]_vars

\* A second report attaches the second entry logged, the first report having
\* attached the first.
C12_Witness ==
    /\ cb_pc = "rpc1"
    /\ reports = 2
    /\ cb_params.error_log = <<ErrorEntry(2)>>
    /\ cb_params.isset_error_log
    /\ attached = <<ErrorEntry(1), ErrorEntry(2)>>

\* An iteration of the loop of OpenWithRetry.
OwrAttemptStep == owr.pc = "loop" /\ owr' # owr
\* An Open() made now succeeds: there is a socket, and the transport is open
\* or the server accepts the connection.
OpenSucceeds == socket_create_status = OK /\ (transport = "open" \/ server_up)
\* The status of an Open() that fails now.
OpenFailure ==
    IF socket_create_status # OK THEN socket_create_status ELSE OpenError

\* C14: OpenWithRetry with num_tries = k > 0 makes at most k Open attempts
\* and then terminates: it returns OK right after the first attempt that
\* succeeds, and when all k attempts fail it returns the status of the k-th
\* failure after exactly k attempts.
C14_BoundedRetry ==
    /\ [](owr.num_tries > 0 =>
             /\ owr.attempts <= owr.num_tries
             /\ owr.pc = "loop" => owr.attempts < owr.num_tries
             /\ owr.ret \notin {"none", OK} => owr.attempts = owr.num_tries)
    /\ [][owr.num_tries > 0 /\ OwrAttemptStep =>
             /\ owr'.attempts = owr.attempts + 1
             /\ OpenSucceeds => owr'.pc = "idle" /\ owr'.ret = OK
             /\ ~OpenSucceeds /\ owr'.attempts = owr.num_tries =>
                    owr'.pc = "idle" /\ owr'.ret = OpenFailure
             /\ ~OpenSucceeds /\ owr'.attempts < owr.num_tries =>
                    owr'.pc = "loop"]_vars
    /\ ((owr.pc = "loop" /\ owr.num_tries > 0) ~> owr.pc = "idle")

\* OpenWithRetry with k > 1 has returned the failure of its k-th attempt.
C14_Witness ==
    /\ owr.num_tries > 1
    /\ owr.pc = "idle"
    /\ owr.ret = OpenError
    /\ owr.attempts = owr.num_tries

\* C15: OpenWithRetry with num_tries = 0 never returns a failure, however
\* many attempts have failed and also after try_count has wrapped around to
\* 0; it returns OK as soon as an attempt succeeds, and so terminates when
\* from some time on Open succeeds.
C15_RetryForever ==
    /\ [](owr.num_tries = 0 => owr.ret \in {"none", OK})
    /\ [][owr.num_tries = 0 /\ OwrAttemptStep =>
             /\ OpenSucceeds => owr'.pc = "idle" /\ owr'.ret = OK
             /\ ~OpenSucceeds => owr'.pc = "loop" /\ owr'.ret = "none"]_vars
    /\ (<>[](socket_create_status = OK /\ server_up) =>
            ((owr.pc = "loop" /\ owr.num_tries = 0) ~> owr.pc = "idle"))

\* OpenWithRetry(0, _) has returned OK after try_count wrapped around.
C15_Witness ==
    /\ owr.num_tries = 0
    /\ owr.wrapped
    /\ owr.pc = "idle"
    /\ owr.ret = OK

\* C16: Open on a client whose transport is open does not open it again and
\* returns OK; a transport_->open() that throws makes Open return a non-OK
\* Status and leaves the transport closed, so that a later Open calls
\* transport_->open() again.
C16_OpenIdempotent ==
    /\ [](client_call.fn = "Open" =>
             /\ client_call.was = "open" =>
                    ~client_call.opened /\ client_call.ret = OK
             /\ client_call.ret \in {OK, SocketError, OpenError}
             /\ client_call.ret = OK <=> transport = "open"
             /\ client_call.ret = OpenError =>
                    client_call.opened /\ transport = "closed")
    /\ [][client_call'.fn = "Open" /\ client_call' # client_call =>
             /\ transport = "open" => transport' = "open"
             /\ transport = "closed" /\ socket_create_status = OK =>
                    client_call'.opened]_vars

\* An Open() on an open transport has returned OK without opening it.
C16_Witness ==
    /\ client_call.fn = "Open"
    /\ client_call.was = "open"
    /\ ~client_call.opened
    /\ client_call.ret = OK
    /\ transport = "open"

\* C17: Close on a client never opened, with or without a transport object,
\* does nothing; on an open client it calls transport_->close() once; after
\* a Close the transport is not open, so a second Close does nothing.
C17_CloseIdempotent ==
    /\ [](client_call.fn = "Close" =>
             /\ transport # "open"
             /\ client_call.closed <=> client_call.was = "open")
    /\ [][client_call'.fn = "Close" /\ client_call' # client_call =>
             /\ transport # "open" =>
                    transport' = transport /\ ~client_call'.closed
             /\ transport = "open" =>
                    transport' = "closed" /\ client_call'.closed]_vars

\* A Close() on a client with a closed transport has done nothing.
C17_Witness ==
    /\ client_call.fn = "Close"
    /\ client_call.was = "closed"
    /\ ~client_call.closed
    /\ transport = "closed"

\* Where executor_ was called with c.
CallsOf(c) == {i \in 1 .. Len(executor_calls) : executor_calls[i] = c}

\* C18: within a fragment the executor is prepared before it is opened and
\* closed only after Open; Exec calls Open and then Close, once each; and
\* Exec runs only on a fragment whose Prepare has returned OK.
C18_LifecycleOrder ==
    /\ Cardinality(CallsOf("Prepare")) <= 1
    /\ Cardinality(CallsOf("Open")) <= 1
    /\ Cardinality(CallsOf("Close")) <= 1
    /\ \A i \in CallsOf("Open") : \E j \in CallsOf("Prepare") : j < i
    /\ \A i \in CallsOf("Close") : \E j \in CallsOf("Open") : j < i
    /\ CallsOf("Open") # {} <=> exec_pc # "none"
    /\ CallsOf("Close") # {} <=> exec_pc = "done"
    /\ exec_pc # "none" => prepare_ret = OK

\* Exec has run to its end on a fragment that was cancelled on the way.
C18_Witness ==
    /\ exec_pc = "done"
    /\ cancel_calls > 0
    /\ executor_calls = <<"Prepare", "OptimizeLlvmModule", "Open", "Close">>

\* C19: after Init has returned OK, max_errors >= 1 and batch_size >= 1: a
\* max_errors that was not positive (0 included) is 100, a batch_size that
\* was not positive is the default batch size, and a positive option is what
\* it was.
C19_InitClampsOptions ==
    init_status = OK =>
        /\ max_errors >= 1
        /\ batch_size >= 1
        /\ max_errors = IF init_args.max_errors <= 0 THEN 100
                                                     ELSE init_args.max_errors
        /\ batch_size = IF init_args.batch_size <= 0 THEN DEFAULT_BATCH_SIZE
                                                     ELSE init_args.batch_size

\* A RuntimeState constructed with max_errors = 0, a batch_size that is not
\* positive and codegen enabled, and used since.
C19_Witness ==
    /\ init_status = OK
    /\ init_args.max_errors = 0
    /\ init_args.batch_size <= 0
    /\ ~init_args.disable_codegen
    /\ Len(error_log) > 0

\* A step that assigns a scan range.
AssignStep == total_assignments' = total_assignments + 1

\* The hosts of a locality list on which a backend of list runs.
HostsWithBackend(hosts, list) ==
    {h \in hosts : \E i \in 1 .. Len(list) : BackendHost[list[i]] = h}

Known(list) == {list[i] : i \in 1 .. Len(list)}

\* C21: with the known backends unchanged, the numbers of non-local scan
\* ranges any two known backends received differ by at most one, however
\* the backends are spread over the hosts.
C21_RoundRobinFair ==
    \A b1 \in Known(backend_list), b2 \in Known(backend_list) :
        nonlocal_count[b1] <= nonlocal_count[b2] + 1

\* A step that assigns a scan range to a backend on none of its hosts.
NonLocalStep == AssignStep /\ ~last_assignment'.local

\* C22: the non-local round-robin iterator is dereferenced only while it
\* refers to the backend map there is, and the first non-local assignment
\* after a membership delta goes to the first entry of the new map.
C22_MembershipResetsRoundRobin ==
    [][NonLocalStep =>
         /\ nonlocal_epoch = map_epoch
         /\ nonlocal_count = NoneAssigned =>
                BackendHost[last_assignment'.backend]
                    = BackendMapHosts(backend_list)[1]]_vars

\* A non-local range was assigned after a delta that came after a non-local
\* assignment had moved the iterator: the iterator stands at the second
\* entry of a map that was changed.
C22_Witness ==
    /\ map_epoch > 0
    /\ nonlocal_rr = 2
    /\ ~last_assignment.local
    /\ last_assignment.backend \in Known(backend_list)
    /\ nonlocal_count[last_assignment.backend] = 1
    /\ total_assignments - total_local_assignments >= 2

\* The ids of the reservation in the schedule of q are in neither map.
Unregistered(q, reservations, resources) ==
    LET r == schedules[q].reservation
    IN  /\ reservations[r.reservation_id] = NoCoordinator
        /\ \A x \in r.allocated_resources : resources[x] = NoCoordinator

\* The ids of the reservation in the schedule of q map to its coordinator.
Registered(q, reservations, resources) ==
    LET r == schedules[q].reservation
    IN  /\ reservations[r.reservation_id] = CoordinatorOf[q]
        /\ \A x \in r.allocated_resources : resources[x] = CoordinatorOf[q]

\* C23: a scheduled query's reservation id and every granted client
\* resource id map to its coordinator; a Release removes exactly those ids
\* from both maps and leaves the entries of the other queries as they were.
C23_ReservationSymmetric ==
    /\ [](\A q \in Queries : schedules[q].state = "scheduled" =>
             Registered(q, active_reservations, active_client_resources))
    /\ [][\A q \in Queries :
             (schedules[q].state = "scheduled"
                 /\ schedules'[q].state = "released") =>
               /\ Unregistered(q, active_reservations',
                               active_client_resources')
               /\ \A o \in Queries \ {q} :
                      schedules[o].state = "scheduled" =>
                        Registered(o, active_reservations',
                                   active_client_resources')]_vars

\* One query was released while the other holds its reservation.
C23_Witness ==
    /\ schedules["q1"].state = "released"
    /\ Unregistered("q1", active_reservations, active_client_resources)
    /\ schedules["q2"].state = "scheduled"
    /\ Registered("q2", active_reservations, active_client_resources)

\* The pools a user is permitted to submit to: those of the user's
\* whitelist and the default pools.
Permitted(user) ==
    {user_pool_whitelist[user][i] :
        i \in 1 .. Len(user_pool_whitelist[user])} \cup default_pools

\* C24 as stated: GetYarnPool never returns a pool the user is not
\* permitted to submit to.
C24_NeverUnpermittedPool ==
    (pool_call.called /\ pool_call.ret = OK) =>
        pool_call.pool \in Permitted(pool_call.user)

\* C24: GetYarnPool returns the pool named in the options whenever one is
\* named, permitted or not; when none is named it returns the user's first
\* whitelisted pool, else a default pool, else fails with PermissionDenied,
\* and the pool it then returns is one the user is permitted to submit to.
C24_PoolAuthorization ==
    pool_call.called =>
        LET c == pool_call
            own == user_pool_whitelist[c.user]
        IN  IF c.yarn_pool # "unset"
              THEN c.ret = OK /\ c.pool = c.yarn_pool
            ELSE IF Len(own) > 0 THEN c.ret = OK /\ c.pool = own[1]
            ELSE IF default_pools # {}
              THEN c.ret = OK /\ c.pool \in default_pools
            ELSE c.ret = PermissionDenied

\* A user with a pool of their own named another pool, one that is not a
\* default pool either, and got it.
C24_Witness ==
    /\ pool_call.called
    /\ pool_call.ret = OK
    /\ pool_call.yarn_pool # "unset"
    /\ pool_call.pool = pool_call.yarn_pool
    /\ Len(user_pool_whitelist[pool_call.user]) > 0
    /\ pool_call.pool \notin Permitted(pool_call.user)

\* The sum of the first n entries of a sequence of deltas.
RunningSum(deltas, n) ==
    LET F[i \in 0 .. n] == IF i = 0 THEN 0 ELSE F[i - 1] + deltas[i]
    IN  F[n]

\* C27: after a series of Update calls on a fresh counter current_value()
\* is the sum of the deltas and value() is the largest of 0 and the running
\* sums.
C27_HighWaterMarkTracksPeak ==
    LET n == Len(hwm_deltas)
        sums == {RunningSum(hwm_deltas, i) : i \in 0 .. n}
    IN  /\ hwm_current = RunningSum(hwm_deltas, n)
        /\ hwm_value \in sums
        /\ \A x \in sums : x <= hwm_value

\* Update(+3), Update(+2), Update(-4), Update(+1) were made: current is 2 and
\* the high water mark 5.
C27_Witness ==
    /\ hwm_deltas = <<3, 2, -4, 1>>
    /\ hwm_current = 2
    /\ hwm_value = 5

\* A step in which thread t returns from TryUpdate.
TryReturns(t) == try_calls[t].pc # "idle" /\ try_calls'[t].pc = "idle"

\* C28: with concurrent TryUpdate calls passing the same max, current_value
\* never exceeds max and is the sum of the deltas of the calls that
\* swapped; a call that returns false changes neither value; a call that
\* swaps adds exactly its delta to the value it read, and the high water
\* mark is at least its new value when it returns true.
C28_TryUpdateBounded ==
    /\ [](hwm_current <= try_max /\ hwm_current = try_applied)
    /\ [][\A t \in TryThreads :
             /\ (TryReturns(t) /\ try_calls'[t].ret = "false") =>
                    /\ UNCHANGED <<hwm_current, hwm_value>>
                    /\ hwm_current + try_calls'[t].delta > try_max
             /\ (try_calls[t].pc = "swap" /\ try_calls'[t].pc = "max") =>
                    hwm_current' = hwm_current + try_calls[t].delta
             /\ (TryReturns(t) /\ try_calls'[t].ret = "true") =>
                    hwm_value' >= try_calls[t].new_val]_vars

\* One thread lost the race of the swap, read again and returned true; the
\* other returned false.
C28_Witness ==
    \E t \in TryThreads, o \in TryThreads :
        /\ try_calls[t].pc = "idle"
        /\ try_calls[t].ret = "true"
        /\ try_calls[t].retried
        /\ try_calls[o].pc = "idle"
        /\ try_calls[o].ret = "false"

\* C25: after dst.Merge(src) a counter of both trees holds the sum of the
\* two old values, a counter of the source alone is in the destination with
\* the source's value, and the source is as it was.
C25_MergeSumsCounters ==
    merged =>
        /\ prof_src = prof_src0
        /\ \A p \in DOMAIN prof_src0 :
               /\ p \in DOMAIN prof_dst
               /\ \A n \in DOMAIN prof_src0[p] :
                      /\ n \in DOMAIN prof_dst[p]
                      /\ prof_dst[p][n] =
                            IF p \in DOMAIN prof_dst0 /\ n \in DOMAIN prof_dst0[p]
                              THEN prof_dst0[p][n] + prof_src0[p][n]
                              ELSE prof_src0[p][n]

\* Scenario S1 at scale: {A: 2} merged with {A: 1, C: 2} gives {A: 3, C: 2},
\* in a tree whose child profile holds A in both trees.
C25_Witness ==
    /\ merged
    /\ prof_dst0["root"] = [n \in {"A"} |-> 2]
    /\ prof_src0["root"] = [n \in {"A", "C"} |-> IF n = "A" THEN 1 ELSE 2]
    /\ prof_dst["root"] = [n \in {"A", "C"} |-> IF n = "A" THEN 3 ELSE 2]
    /\ DOMAIN prof_dst0 = DOMAIN prof_src0
    /\ "root/child" \in DOMAIN prof_dst0
    /\ "A" \in DOMAIN prof_dst0["root/child"] \cap DOMAIN prof_src0["root/child"]

\* C26: every name of the counter map has one counter object of its own,
\* which GetCounter returns, and AddCounter under a name that is taken
\* returns that object, makes no counter and leaves its value.
C26_CounterNamesUnique ==
    /\ [](\A n \in CounterNames, m \in CounterNames :
             /\ counter_map[n] \in 0 .. Len(counters)
             /\ (counter_map[n] # 0 /\ counter_map[n] = counter_map[m])
                    => n = m)
    /\ [][/\ counter_call'.fn = "GetCounter" =>
               counter_call'.ret = counter_map[counter_call'.name]
          /\ (counter_call'.fn = "AddCounter" /\ counter_map[counter_call'.name] # 0)
               => /\ counter_call'.ret = counter_map[counter_call'.name]
                  /\ UNCHANGED <<counter_map, counters>>]_vars

\* AddCounter was called under a name whose counter had been updated, and
\* returned that counter with its value.
C26_Witness ==
    /\ counter_call.fn = "AddCounter"
    /\ counter_call.existed
    /\ counter_call.value > 0
    /\ counter_call.ret = counter_map[counter_call.name]
    /\ Len(counters) = 2

\* The statuses ReportStatusCb records when it fails to report.
ReportingFailures ==
    {NoClientStatus, ReopenFailedStatus, CoordErrorStatus, RpcFailedStatus}

\* C29: a step of ReportStatusCb that records a reporting failure in
\* exec_status also calls executor_.Cancel(), so a returned callback never
\* leaves a reporting failure in exec_status with the executor not told to
\* cancel.
C29_ReportFailureCancels ==
    /\ [][(cb_pc # "idle" /\ exec_status = OK
             /\ exec_status' \in ReportingFailures) =>
            /\ executor_cancelled'
            /\ executor_cancels' = executor_cancels + 1]_vars
    /\ []((cb_pc = "idle" /\ exec_status \in ReportingFailures) =>
             executor_cancelled)

\* C30: every message ReportStatusCb sends to the coordinator with a non-OK
\* status carries done = true.
C30_NonOkReportIsDone ==
    /\ cb_pc \in {"rpc1", "reopen", "rpc2"} =>
           (cb_params.status # OK => cb_params.done)
    /\ \A i \in 1 .. Len(coord_received) :
           coord_received[i].status # OK => coord_received[i].done

\* The step of ReportStatusCb that folds its status argument into exec_status
\* (line 61).
FoldStep == cb_pc = "idle" /\ cb_pc' = "client"

\* The params are built and ReportStatusCb has not returned yet.
InFlight == cb_pc \in {"rpc1", "reopen", "rpc2"}

\* C31: the status of each ReportExecStatus message is exec_status as it
\* stood once the callback's status argument was folded in by UpdateStatus:
\* the first non-OK status recorded so far, or OK if none. The fold leaves in
\* the local what exec_status then is, the params are built with that local
\* and with the callback's done, the message handed to the coordinator is
\* those params, and a non-OK status in a message is the fragment's
\* exec_status for good.
C31_ReportedStatusIsFolded ==
    /\ [](InFlight /\ cb_params.status # OK =>
              /\ exec_status = cb_params.status
              /\ first_error = cb_params.status)
    /\ [][/\ FoldStep =>
               /\ cb_exec_status' = exec_status'
               /\ exec_status' = first_error'
               /\ exec_status' = IF exec_status = OK THEN upd'.arg
                                                     ELSE exec_status
          /\ AttachStep =>
               /\ cb_params'.status = cb_exec_status
               /\ cb_params'.done = cb_done
          /\ (InFlight /\ InFlight') => cb_params' = cb_params
          /\ coord_received' # coord_received =>
               /\ InFlight
               /\ coord_received' = Append(coord_received, cb_params)]_vars

\* The final report: the executor failed, and the coordinator has received
\* a message with that status and done = true.
C31_Witness ==
    /\ Len(coord_received) = 2
    /\ coord_received[1].status = OK
    /\ ~coord_received[1].done
    /\ coord_received[2].status = "EXEC_ERROR"
    /\ coord_received[2].done
    /\ exec_status = "EXEC_ERROR"

\* The detailed memory-limit entries in a log.
MemLimitEntries(log) ==
    Cardinality({i \in 1 .. Len(log) : log[i][1] = "mem_limit"})

\* Worker w has returned from a SetMemLimitExceeded call, made directly or
\* by CheckQueryState (line 244).
SetMemLimitExceededReturned(w) ==
    /\ pc[w] = "idle"
    /\ \/ call[w].fn = "SetMemLimitExceeded"
       \/ call[w].fn = "CheckQueryState" /\ call[w].saw_exceeded

\* C32 as stated: once SetMemLimitExceeded calls have been made and have all
\* returned, the error log holds exactly one memory-limit entry.
C32_ExactlyOneMemLimitEntry ==
    (/\ \E w \in Workers : SetMemLimitExceededReturned(w)
     /\ \A w \in Workers : pc[w] # "sml_log") =>
        MemLimitEntries(error_log) = 1

\* C32, amended: the error log never holds more than one memory-limit entry;
\* an entry in it means query_status_ is MEM_LIMIT_EXCEEDED; a call that
\* finds query_status_ non-OK leaves the log as it is; the one call that made
\* the transition from OK appends the entry, and only when the log holds
\* fewer than max_errors entries.
C32_AtMostOneMemLimitEntry ==
    /\ [](/\ MemLimitEntries(error_log) <= 1
          /\ MemLimitEntries(error_log) = 1 => query_status = MemLimitExceeded
          /\ \A w \in Workers : pc[w] = "sml_log" =>
                /\ MemLimitEntries(error_log) = 0
                /\ call[w].seen = OK
                /\ \A v \in Workers \ {w} : pc[v] # "sml_log")
    /\ [][\A w \in Workers :
             /\ (SetMemLimitExceeded_LockStep(w) /\ query_status # OK) =>
                  /\ error_log' = error_log
                  /\ pc'[w] = "idle"
             /\ (pc[w] = "sml_log" /\ pc'[w] = "idle") =>
                  error_log' =
                      IF Len(error_log) < max_errors
                        THEN Append(error_log,
                                    MemLimitEntry(call[w].failed_size))
                        ELSE error_log
             /\ MemLimitEntries(error_log') # MemLimitEntries(error_log) =>
                  \E v \in Workers : pc[v] = "sml_log" /\ pc'[v] = "idle"]_vars

\* Both workers have returned from SetMemLimitExceeded: one made the
\* transition, the other found MEM_LIMIT_EXCEEDED, and the log holds the one
\* entry.
C32_Witness ==
    /\ \A w \in Workers : pc[w] = "idle" /\ call[w].fn = "SetMemLimitExceeded"
    /\ \E w \in Workers : call[w].seen = OK
    /\ \E w \in Workers : call[w].seen = MemLimitExceeded
    /\ MemLimitEntries(error_log) = 1

\* The error-log entries the coordinator has received, in order of arrival.
RECURSIVE ReceivedErrors(_)
ReceivedErrors(received) ==
    IF received = <<>> THEN <<>>
    ELSE ReceivedErrors(SubSeq(received, 1, Len(received) - 1))
             \o received[Len(received)].error_log

\* The entries of a sequence, as a set.
Range(seq) == {seq[i] : i \in 1 .. Len(seq)}

\* C33 as stated: the watermark only advances past entries that were
\* actually sent: once the callback has returned, every entry below the
\* watermark has been received by the coordinator.
C33_WatermarkOnlyPastSent ==
    cb_pc = "idle" =>
        Range(SubSeq(error_log, 1, unreported_error_idx))
            \subseteq Range(ReceivedErrors(coord_received))

\* C33, amended: the watermark advances to the end of the log when the
\* entries are drained into params, before the RPC, and no later step of
\* ReportStatusCb moves it: a report that is not delivered leaves it
\* advanced, so its entries are attached to no later report. Each entry is
\* attached to at most one message, and the coordinator holds only entries
\* below the watermark, each at most once and in log order.
C33_WatermarkAdvancesOnDrain ==
    /\ [](LET got == ReceivedErrors(coord_received)
          IN  /\ Range(got) \subseteq
                     Range(SubSeq(error_log, 1, unreported_error_idx))
              /\ \A i, j \in 1 .. Len(got) : i < j =>
                     \E k, l \in 1 .. unreported_error_idx :
                         /\ k < l
                         /\ error_log[k] = got[i]
                         /\ error_log[l] = got[j]
              /\ InFlight => Range(cb_params.error_log) \cap Range(got) = {})
    /\ [][/\ AttachStep =>
               /\ unreported_error_idx' = Len(error_log)
               /\ Range(cb_params'.error_log) \cap Range(attached) = {}
          /\ ~AttachStep => unreported_error_idx' = unreported_error_idx
          /\ (InFlight /\ cb_pc' = "idle"
                /\ coord_received' = coord_received) =>
               unreported_error_idx' = unreported_error_idx]_vars

\* An entry was drained for a report that was not delivered, and the next
\* report, which was delivered, did not carry it.
C33_Witness ==
    /\ cb_pc = "idle"
    /\ reports = 2
    /\ error_log = <<ErrorEntry(1)>>
    /\ unreported_error_idx = 1
    /\ Len(coord_received) = 1
    /\ coord_received[1].error_log = <<>>

\* C34: Cancel() on a fragment whose exec_status_ is non-OK returns that
\* status, does not signal the executor and leaves exec_status_ as it is;
\* a Cancel() call that signals the executor found exec_status_ OK.
C34_CancelAfterError ==
    [][CancelStep =>
          /\ exec_status # OK =>
                /\ cancel_ret' = exec_status
                /\ executor_cancels' = executor_cancels
                /\ executor_cancelled' = executor_cancelled
                /\ exec_status' = exec_status
          /\ executor_cancels' # executor_cancels =>
                /\ exec_status = OK
                /\ exec_status' = OK
                /\ executor_cancels' = executor_cancels + 1]_vars

\* Cancel() was called on a fragment that had failed: it returned the error
\* and the executor has not been signalled.
C34_Witness ==
    /\ cancel_calls >= 1
    /\ cancel_ret = "EXEC_ERROR"
    /\ exec_status = "EXEC_ERROR"
    /\ ~executor_cancelled
    /\ executor_cancels = 0

\* C35: no operation of a RuntimeProfile invokes caller-supplied code (a
\* comparator, a derived-counter function) while its thread holds one of the
\* profile's locks.
C35_NoCallbackUnderLock == last_callback.locks = {}

\* C36 as stated: on a client whose socket_create_status_ is non-OK,
\* OpenWithRetry terminates, whatever num_tries is.
C36_SocketFailureTerminates ==
    (socket_create_status # OK /\ owr.pc = "loop") ~> owr.pc = "idle"

\* C36, amended: on a client whose socket_create_status_ is non-OK, Open
\* returns that status without calling transport_->open(); OpenWithRetry
\* with num_tries = k > 0 returns that status after k attempts; OpenWithRetry
\* with num_tries = 0 never returns: every attempt fails with that status and
\* is followed by another.
C36_SocketFailureRetried ==
    /\ []((socket_create_status # OK /\ client_call.fn = "Open") =>
             /\ ~client_call.opened
             /\ client_call.ret = socket_create_status
             /\ transport = "null")
    /\ [][(socket_create_status # OK /\ OwrAttemptStep) =>
             /\ client_call'.fn = "Open"
             /\ owr.num_tries > 0 =>
                  /\ owr'.attempts = owr.attempts + 1
                  /\ owr'.attempts = owr.num_tries =>
                       owr'.pc = "idle" /\ owr'.ret = socket_create_status
                  /\ owr'.attempts < owr.num_tries => owr'.pc = "loop"
             /\ owr.num_tries = 0 =>
                  /\ owr'.pc = "loop"
                  /\ owr'.ret = "none"
                  /\ socket_create_status' # OK]_vars
    /\ ((socket_create_status # OK /\ owr.pc = "loop" /\ owr.num_tries > 0)
            ~> owr.pc = "idle")

\* OpenWithRetry(0, _) on a client without a socket is still in its loop
\* after try_count has wrapped around.
C36_Witness ==
    /\ socket_create_status = SocketError
    /\ owr.num_tries = 0
    /\ owr.pc = "loop"
    /\ owr.wrapped
    /\ client_call.fn = "Open"
    /\ client_call.ret = SocketError

\* The values threads have stored in current_value_ and not yet handed to
\* value_.UpdateMax: the calls between their two atomic steps.
PendingMarks ==
    {hwm_calls[t].new_val : t \in {h \in HwmThreads : hwm_calls[h].pc = "max"}}
    \cup {try_calls[t].new_val :
              t \in {h \in TryThreads : try_calls[h].pc = "max"}}

\* C37 as stated: value() never decreases, and in every state, the states
\* between the two atomic steps of a call included, value() is at least
\* current_value().
C37_MarkAtLeastCurrent ==
    /\ [](hwm_value >= hwm_current)
    /\ [][hwm_value' >= hwm_value]_vars

\* C37, amended: value() never decreases over any interleaving of Update,
\* TryUpdate and Set calls; value() is at least current_value() whenever no
\* call is between its two atomic steps, and while current_value() is above
\* value() it is the value a call has stored and has yet to hand to
\* UpdateMax.
C37_MarkMonotone ==
    /\ [](/\ PendingMarks = {} => hwm_value >= hwm_current
          /\ hwm_current > hwm_value => hwm_current \in PendingMarks)
    /\ [][hwm_value' >= hwm_value]_vars

\* A Set call between its two steps, with current_value() above value()
\* after the mark had been raised before.
C37_Witness ==
    /\ \E t \in HwmThreads : hwm_calls[t].op = "Set" /\ hwm_calls[t].pc = "max"
    /\ hwm_value > 0
    /\ hwm_current > hwm_value

\* The query-wide tracker exists and is the tracker with this id.
QueryTrackerLive(id) == query_tracker.refs > 0 /\ query_tracker.id = id

\* C38: in every state in which the instance tracker of a RuntimeState
\* exists, the query tracker it was created under exists too, held by that
\* RuntimeState's query_mem_tracker_: InitMemTrackers acquires the query
\* tracker before it creates the instance tracker, and the destructor resets
\* the instance tracker before the query tracker.
C38_QueryTrackerOutlivesInstance ==
    /\ [](\A i \in Instances : trk[i].instance # 0 =>
             /\ QueryTrackerLive(trk[i].instance)
             /\ trk[i].query = trk[i].instance)
    /\ [][\A i \in Instances :
             /\ (trk[i].instance = 0 /\ trk'[i].instance # 0) =>
                    trk[i].query # 0 /\ trk'[i].instance = trk[i].query
             /\ (trk[i].query # 0 /\ trk'[i].query = 0) =>
                    trk[i].instance = 0]_vars

\* One instance's RuntimeState has been destructed, having dropped its
\* instance tracker and then its reference to the query tracker, while the
\* other instance still has its instance tracker under the same query
\* tracker.
C38_Witness ==
    /\ trk["i1"].pc = "destroyed"
    /\ trk["i2"].pc = "ready"
    /\ trk["i2"].instance = 1
    /\ query_tracker = [refs |-> 1, limit |-> 1, id |-> 1]

\* C39: whatever Init returned to the constructor, max_errors and batch_size
\* are positive, the RuntimeState is registered with the thread manager and
\* the three total timers are in the profile.
C39_InitSetsUpOnEveryPath ==
    Constructed =>
        /\ max_errors >= 1
        /\ batch_size >= 1
        /\ resource_pool = "registered"
        /\ total_timers = TotalTimers

\* The column each projection string names: -1 for a string with no '$' or
\* with no non-negative integer right after its first '$'.
NamedColumn(str) ==
    CASE str \in {<<"$", "0">>, <<"$", "-", "0">>} -> 0
      [] str \in {<<"$", "1">>, <<"x", "$", "1">>, <<"$", "1", "x">>,
                  <<"$", " ", "1">>, <<"$", "+", "1">>} -> 1
      [] str = <<"$", "2">> -> 2
      [] str = <<"$", "1", "2">> -> 12
      [] OTHER -> -1

\* C40: when Project::init returns normally, projlist holds one entry per
\* configured projection string, in order, each a column of the source
\* schema, and MapWrapper::init has run; a string that names no column
\* raises InvalidParameter and a column the schema does not have raises
\* IllegalSchemaDeclarationException, both before MapWrapper::init runs, the
\* strings before it having been accepted.
C40_ProjectInitValidates ==
    /\ Len(projlist) = proj_idx
    /\ \A k \in 1 .. proj_idx :
           /\ projlist[k] = NamedColumn(node[k])
           /\ 0 <= projlist[k]
           /\ projlist[k] < columns
    /\ proj_status = "returned" => proj_idx = Len(node) /\ map_wrapper_init
    /\ proj_status = "InvalidParameter" =>
           /\ NamedColumn(node[proj_idx + 1]) = -1
           /\ ~map_wrapper_init
    /\ proj_status = "IllegalSchemaDeclarationException" =>
           /\ NamedColumn(node[proj_idx + 1]) >= columns
           /\ ~map_wrapper_init
    /\ map_wrapper_init => proj_status = "returned"

\* init has returned on a configuration of two strings, the first with
\* characters before its '$'.
C40_Witness ==
    /\ proj_status = "returned"
    /\ node = <<(<<"x", "$", "1">>), (<<"$", "0">>)>>
    /\ projlist = <<1, 0>>
    /\ columns = 2
    /\ map_wrapper_init

====
